---- MODULE Spec2Model ----
(***************************************************************************)
(* A model of the allprompt core: the output formatter                     *)
(* (src/core/output_formatter.py) and the directory scanner                *)
(* (src/core/file_scanner.py).                                             *)
(*                                                                         *)
(* A Python str is modelled as the sequence of its Unicode code points, a  *)
(* pathlib path as the sequence of its components (the anchor "/" left     *)
(* implicit), a list as a sequence, a dict as a function.                  *)
(***************************************************************************)
EXTENDS Integers, Sequences, FiniteSets, TLC

VARIABLES
    root_path,      \* formatter: the root_path argument
    file_paths,     \* formatter: the file_paths argument (list of paths)
    file_cache,     \* formatter: the file_cache argument (dict path -> str)
    fs,             \* formatter: what is on disk at each path of the universe
    call,           \* formatter: the last call made and what it gave
    root_kind,      \* scanner: what the scanned root path is on disk
    disk,           \* scanner: what is below the root, by relative path
    include_hidden, \* scanner: the include_hidden argument
    follow_symlinks,\* scanner: the follow_symlinks argument
    scan_pc,        \* scanner: "idle", "scanning", "done" or "raised"
    scan_error,     \* scanner: the exception scan_directory raised
    scan_items,     \* scanner: the list `items`
    scan_stack,     \* scanner: the calls of _scan_directory_recursive in progress
    scan_prev,      \* scanner: what the scan before this one returned
    sort_call,      \* sort_items: the arguments of a call and what it returned
    filter_call,    \* GitignoreFilter: a filter, a call of should_ignore and its result
    read_call,      \* read_text_file: the path of a call, and what is_binary_file and it returned
    token_call,     \* the Tokenizer made and its count_tokens call
    map_call,       \* generate_file_map called on a list of items
    load_call,      \* FileTreeController.load_folder and the folder it loads
    threads,        \* the main thread, the token workers and the events posted
    copy_call,      \* the call of perform_copy_to_clipboard
    tree_items      \* the tree's check states and checked_items

fmt_vars == <<root_path, file_paths, file_cache, fs, call>>
scan_vars == <<root_kind, disk, include_hidden, follow_symlinks, scan_pc,
               scan_error, scan_items, scan_stack, scan_prev>>
more_vars == <<sort_call, filter_call, read_call, token_call, map_call, load_call, threads, copy_call, tree_items>>
vars == <<fmt_vars, scan_vars, more_vars>>

(***************************************************************************)
(* Bounds of the model.                                                    *)
(***************************************************************************)
MaxSel == 3         \* longest selection list handed to the formatter
MaxEntries == 5     \* most entries below a scanned root

(***************************************************************************)
(* Text.                                                                   *)
(***************************************************************************)
NL == <<10>>                \* "\n"
SLASH == <<47>>             \* "/"
DOT == <<46>>               \* "."

\* sep.join(lines)
RECURSIVE Join(_, _)
Join(lines, sep) ==
    IF lines = <<>> THEN <<>>
    ELSE IF Len(lines) = 1 THEN lines[1]
    ELSE lines[1] \o sep \o Join(Tail(lines), sep)

\* s < t on Python strings: lexicographic by code point
RECURSIVE StrLess(_, _)
StrLess(s, t) ==
    IF t = <<>> THEN FALSE
    ELSE IF s = <<>> THEN TRUE
    ELSE IF s[1] = t[1] THEN StrLess(Tail(s), Tail(t))
    ELSE s[1] < t[1]

\* one character of str.lower(): the ASCII capitals (the model's names hold
\* no other cased character)
LowerChar(c) == IF c >= 65 /\ c <= 90 THEN c + 32 ELSE c

\* str.lower()
Lower(s) == [i \in 1..Len(s) |-> LowerChar(s[i])]

\* str.rfind("."), 1-based; 0 when there is none
RECURSIVE RFindDot(_, _)
RFindDot(s, i) ==
    IF i = 0 THEN 0
    ELSE IF s[i] = DOT[1] THEN i
    ELSE RFindDot(s, i - 1)

\* PurePath.suffix of a path whose last component is name: the part of the
\* name from its last dot, unless that dot starts or ends the name
Suffix(name) ==
    LET i == RFindDot(name, Len(name))
    IN  IF 1 < i /\ i < Len(name) THEN SubSeq(name, i, Len(name)) ELSE <<>>

\* str(path) of a relative path: "." for the empty path, else the components
\* joined by "/" (os.sep is "/", so .replace(os.sep, '/') changes nothing)
RelPathStr(parts) == IF parts = <<>> THEN DOT ELSE Join(parts, SLASH)

\* str(path) of an absolute path
AbsPathStr(parts) == SLASH \o Join(parts, SLASH)

(***************************************************************************)
(* output_formatter.py: the extension table.                               *)
(***************************************************************************)
\* a dict written as the list of its (key, value) pairs
EXTENSION_TO_LANGUAGE == <<
    <<<<46, 112, 121>>, <<112, 121, 116, 104, 111, 110>>>>,    \* .py -> python
    <<<<46, 106, 115>>, <<106, 97, 118, 97, 115, 99, 114, 105, 112, 116>>>>,    \* .js -> javascript
    <<<<46, 106, 115, 120>>, <<106, 115, 120>>>>,    \* .jsx -> jsx
    <<<<46, 116, 115>>, <<116, 121, 112, 101, 115, 99, 114, 105, 112, 116>>>>,    \* .ts -> typescript
    <<<<46, 116, 115, 120>>, <<116, 115, 120>>>>,    \* .tsx -> tsx
    <<<<46, 104, 116, 109, 108>>, <<104, 116, 109, 108>>>>,    \* .html -> html
    <<<<46, 99, 115, 115>>, <<99, 115, 115>>>>,    \* .css -> css
    <<<<46, 115, 99, 115, 115>>, <<115, 99, 115, 115>>>>,    \* .scss -> scss
    <<<<46, 115, 97, 115, 115>>, <<115, 97, 115, 115>>>>,    \* .sass -> sass
    <<<<46, 106, 115, 111, 110>>, <<106, 115, 111, 110>>>>,    \* .json -> json
    <<<<46, 109, 100>>, <<109, 97, 114, 107, 100, 111, 119, 110>>>>,    \* .md -> markdown
    <<<<46, 116, 120, 116>>, <<116, 101, 120, 116>>>>,    \* .txt -> text
    <<<<46, 115, 104>>, <<98, 97, 115, 104>>>>,    \* .sh -> bash
    <<<<46, 98, 97, 115, 104>>, <<98, 97, 115, 104>>>>,    \* .bash -> bash
    <<<<46, 122, 115, 104>>, <<98, 97, 115, 104>>>>,    \* .zsh -> bash
    <<<<46, 99>>, <<99>>>>,    \* .c -> c
    <<<<46, 99, 112, 112>>, <<99, 112, 112>>>>,    \* .cpp -> cpp
    <<<<46, 99, 115>>, <<99, 115, 104, 97, 114, 112>>>>,    \* .cs -> csharp
    <<<<46, 106, 97, 118, 97>>, <<106, 97, 118, 97>>>>,    \* .java -> java
    <<<<46, 114, 98>>, <<114, 117, 98, 121>>>>,    \* .rb -> ruby
    <<<<46, 103, 111>>, <<103, 111>>>>,    \* .go -> go
    <<<<46, 114, 115>>, <<114, 117, 115, 116>>>>,    \* .rs -> rust
    <<<<46, 112, 104, 112>>, <<112, 104, 112>>>>,    \* .php -> php
    <<<<46, 115, 119, 105, 102, 116>>, <<115, 119, 105, 102, 116>>>>,    \* .swift -> swift
    <<<<46, 107, 116>>, <<107, 111, 116, 108, 105, 110>>>>,    \* .kt -> kotlin
    <<<<46, 107, 116, 115>>, <<107, 111, 116, 108, 105, 110>>>>,    \* .kts -> kotlin
    <<<<46, 120, 109, 108>>, <<120, 109, 108>>>>,    \* .xml -> xml
    <<<<46, 121, 97, 109, 108>>, <<121, 97, 109, 108>>>>,    \* .yaml -> yaml
    <<<<46, 121, 109, 108>>, <<121, 97, 109, 108>>>>,    \* .yml -> yaml
    <<<<46, 116, 111, 109, 108>>, <<116, 111, 109, 108>>>>,    \* .toml -> toml
    <<<<46, 105, 110, 105>>, <<105, 110, 105>>>>,    \* .ini -> ini
    <<<<46, 99, 102, 103>>, <<105, 110, 105>>>>,    \* .cfg -> ini
    <<<<46, 99, 111, 110, 102>>, <<105, 110, 105>>>>,    \* .conf -> ini
    <<<<46, 115, 113, 108>>, <<115, 113, 108>>>>,    \* .sql -> sql
    <<<<46, 114>>, <<114>>>>,    \* .r -> r
    <<<<46, 100, 97, 114, 116>>, <<100, 97, 114, 116>>>>,    \* .dart -> dart
    <<<<46, 108, 117, 97>>, <<108, 117, 97>>>>,    \* .lua -> lua
    <<<<46, 112, 108>>, <<112, 101, 114, 108>>>>,    \* .pl -> perl
    <<<<46, 112, 109>>, <<112, 101, 114, 108>>>>,    \* .pm -> perl
    <<<<46, 104, 115>>, <<104, 97, 115, 107, 101, 108, 108>>>>    \* .hs -> haskell
>>

\* dict.get(key, default) on a dict written as a list of pairs
RECURSIVE DictGet(_, _, _)
DictGet(pairs, key, default) ==
    IF pairs = <<>> THEN default
    ELSE IF pairs[1][1] = key THEN pairs[1][2]
    ELSE DictGet(Tail(pairs), key, default)

(***************************************************************************)
(* The paths of the model: a root /proj, entries below it and one entry    *)
(* outside it.                                                             *)
(***************************************************************************)
N_proj == <<112, 114, 111, 106>> (* "proj" *)
N_a == <<97>> (* "a" *)
N_x_py == <<120, 46, 112, 121>> (* "x.py" *)
N_a_b == <<97, 45, 98>> (* "a-b" *)
N_a_h == <<97, 46, 104>> (* "a.h" *)
N_sub == <<115, 117, 98>> (* "sub" *)
N_M_RS == <<77, 46, 82, 83>> (* "M.RS" *)
N_other == <<111, 116, 104, 101, 114>> (* "other" *)
N_z_xyz == <<122, 46, 120, 121, 122>> (* "z.xyz" *)

P_proj == <<N_proj>>                    \* /proj
P_a == <<N_proj, N_a>>                  \* /proj/a
P_a_x_py == <<N_proj, N_a, N_x_py>>     \* /proj/a/x.py
P_a_b == <<N_proj, N_a_b>>              \* /proj/a-b
P_a_h == <<N_proj, N_a_h>>              \* /proj/a.h
P_sub == <<N_proj, N_sub>>              \* /proj/sub
P_sub_M_RS == <<N_proj, N_sub, N_M_RS>> \* /proj/sub/M.RS
P_z_xyz == <<N_other, N_z_xyz>>         \* /other/z.xyz

Universe == {P_proj, P_a, P_a_x_py, P_a_b, P_a_h, P_sub, P_sub_M_RS, P_z_xyz}

\* the roots a call is made with: /proj, and / (whose name is empty)
Roots == {P_proj, <<>>}

Dir == [kind |-> "dir", bytes |-> <<>>]
Missing == [kind |-> "missing", bytes |-> <<>>]
File(bytes) == [kind |-> "file", bytes |-> bytes]
Denied(bytes) == [kind |-> "denied", bytes |-> bytes]

\* what a path usually is, and what it may be instead
UsualEntry(p) ==
    CASE p = P_proj -> Dir
      [] p = P_a -> Dir
      [] p = P_a_x_py -> File(<<120, 32, 61, 32, 49, 10>> (* "x = 1\n" *))
      [] p = P_a_b -> File(<<>>)
      [] p = P_a_h -> File(<<104>> (* "h" *))
      [] p = P_sub -> Dir
      [] p = P_sub_M_RS -> File(<<102, 110>> (* "fn" *))
      [] p = P_z_xyz -> File(<<122, 10, 122>> (* "z\nz" *))

OtherEntry(p) ==
    CASE p = P_proj -> Dir
      [] p = P_a -> Missing                     \* deleted after selection
      [] p = P_a_x_py -> Missing
      [] p = P_a_b -> File(<<0, 1>>)            \* a NUL byte: binary
      [] p = P_a_h -> Denied(<<104>> (* "h" *))             \* no read permission
      [] p = P_sub -> File(<<115>> (* "s" *))
      [] p = P_sub_M_RS -> File(<<233>>)        \* not UTF-8
      [] p = P_z_xyz -> Missing

Parent(p) == SubSeq(p, 1, Len(p) - 1)

\* the disk in which the paths of `other` are what they may be instead; an
\* entry exists only below a directory
RECURSIVE EntryAt(_, _)
EntryAt(other, p) ==
    IF Len(p) > 1 /\ Parent(p) \in Universe /\ EntryAt(other, Parent(p)).kind # "dir"
    THEN Missing
    ELSE IF p \in other THEN OtherEntry(p) ELSE UsualEntry(p)

Disk(other) == [p \in Universe |-> EntryAt(other, p)]

(***************************************************************************)
(* file_scanner.py: is_binary_file, read_text_file.                        *)
(***************************************************************************)
Exists(p) == fs[p].kind # "missing"
IsDir(p) == fs[p].kind = "dir"
IsFile(p) == fs[p].kind \in {"file", "denied"}

BINARY_EXTENSIONS == {
    <<46, 101, 120, 101>> (* ".exe" *), <<46, 100, 108, 108>> (* ".dll" *), <<46, 115, 111>> (* ".so" *), <<46, 100, 121, 108, 105, 98>> (* ".dylib" *), <<46, 98, 105, 110>> (* ".bin" *), <<46, 111>> (* ".o" *), <<46, 111, 98, 106>> (* ".obj" *),
    <<46, 122, 105, 112>> (* ".zip" *), <<46, 103, 122>> (* ".gz" *), <<46, 116, 97, 114>> (* ".tar" *), <<46, 114, 97, 114>> (* ".rar" *), <<46, 55, 122>> (* ".7z" *), <<46, 120, 122>> (* ".xz" *), <<46, 98, 122, 50>> (* ".bz2" *),
    <<46, 106, 112, 103>> (* ".jpg" *), <<46, 106, 112, 101, 103>> (* ".jpeg" *), <<46, 112, 110, 103>> (* ".png" *), <<46, 103, 105, 102>> (* ".gif" *), <<46, 98, 109, 112>> (* ".bmp" *), <<46, 116, 105, 102, 102>> (* ".tiff" *), <<46, 105, 99, 111>> (* ".ico" *), <<46, 119, 101, 98, 112>> (* ".webp" *),
    <<46, 109, 112, 51>> (* ".mp3" *), <<46, 119, 97, 118>> (* ".wav" *), <<46, 111, 103, 103>> (* ".ogg" *), <<46, 102, 108, 97, 99>> (* ".flac" *), <<46, 97, 97, 99>> (* ".aac" *), <<46, 119, 109, 97>> (* ".wma" *),
    <<46, 109, 112, 52>> (* ".mp4" *), <<46, 97, 118, 105>> (* ".avi" *), <<46, 109, 107, 118>> (* ".mkv" *), <<46, 109, 111, 118>> (* ".mov" *), <<46, 119, 109, 118>> (* ".wmv" *), <<46, 102, 108, 118>> (* ".flv" *), <<46, 119, 101, 98, 109>> (* ".webm" *),
    <<46, 112, 100, 102>> (* ".pdf" *), <<46, 100, 111, 99>> (* ".doc" *), <<46, 100, 111, 99, 120>> (* ".docx" *), <<46, 120, 108, 115>> (* ".xls" *), <<46, 120, 108, 115, 120>> (* ".xlsx" *), <<46, 112, 112, 116>> (* ".ppt" *), <<46, 112, 112, 116, 120>> (* ".pptx" *),
    <<46, 99, 108, 97, 115, 115>> (* ".class" *), <<46, 112, 121, 99>> (* ".pyc" *), <<46, 112, 121, 100>> (* ".pyd" *), <<46, 112, 121, 111>> (* ".pyo" *), <<46, 100, 98>> (* ".db" *), <<46, 115, 113, 108, 105, 116, 101>> (* ".sqlite" *), <<46, 109, 100, 98>> (* ".mdb" *),
    <<46, 116, 116, 102>> (* ".ttf" *), <<46, 119, 111, 102, 102>> (* ".woff" *), <<46, 119, 111, 102, 102, 50>> (* ".woff2" *), <<46, 101, 111, 116>> (* ".eot" *), <<46, 111, 116, 102>> (* ".otf" *)
}

\* the first min(1024, size) bytes
CHUNK == 1024
Chunk(bytes) == SubSeq(bytes, 1, IF Len(bytes) < CHUNK THEN Len(bytes) ELSE CHUNK)

is_binary_file(p) ==
    IF ~IsFile(p) THEN FALSE
    ELSE IF Len(fs[p].bytes) = 0 THEN FALSE
    ELSE IF Lower(Suffix(p[Len(p)])) \in BINARY_EXTENSIONS THEN TRUE
    ELSE IF fs[p].kind = "denied" THEN FALSE    \* open() raises, caught: False
    ELSE \E i \in 1..Len(Chunk(fs[p].bytes)) : Chunk(fs[p].bytes)[i] = 0

ENCODINGS == <<"utf-8", "utf-8-sig", "utf-16", "utf-16-le", "utf-16-be",
               "latin-1", "iso-8859-1", "cp1252", "euc-kr", "cp949",
               "shift-jis", "cp932", "gb2312", "gbk", "gb18030", "cp1251",
               "ascii">>

\* UTF-8: the number of bytes of the sequence a lead byte starts; 0 for a
\* byte that starts none (a continuation byte, 0xC0, 0xC1, 0xF5 and above)
Utf8Len(b) ==
    IF b < 128 THEN 1
    ELSE IF b >= 194 /\ b <= 223 THEN 2
    ELSE IF b >= 224 /\ b <= 239 THEN 3
    ELSE IF b >= 240 /\ b <= 244 THEN 4
    ELSE 0

IsCont(b) == b >= 128 /\ b <= 191

\* the second byte of a sequence: a continuation byte that makes the sequence
\* neither overlong nor a surrogate nor above U+10FFFF
SecondOk(lead, b) ==
    /\ IsCont(b)
    /\ lead = 224 => b >= 160
    /\ lead = 237 => b <= 159
    /\ lead = 240 => b >= 144
    /\ lead = 244 => b <= 143

\* the code point of the sequence of n bytes at the head of bytes
Utf8Point(bytes, n) ==
    CASE n = 1 -> bytes[1]
      [] n = 2 -> (bytes[1] - 192) * 64 + (bytes[2] - 128)
      [] n = 3 -> (bytes[1] - 224) * 4096 + (bytes[2] - 128) * 64 + (bytes[3] - 128)
      [] n = 4 -> (bytes[1] - 240) * 262144 + (bytes[2] - 128) * 4096
                  + (bytes[3] - 128) * 64 + (bytes[4] - 128)

\* bytes.decode("utf-8"): ok is FALSE where it raises UnicodeDecodeError
RECURSIVE Utf8Decode(_)
Utf8Decode(bytes) ==
    IF bytes = <<>> THEN [ok |-> TRUE, text |-> <<>>]
    ELSE LET n == Utf8Len(bytes[1])
         IN  IF n = 0 \/ Len(bytes) < n THEN [ok |-> FALSE, text |-> <<>>]
             ELSE IF n >= 2 /\ ~SecondOk(bytes[1], bytes[2]) THEN [ok |-> FALSE, text |-> <<>>]
             ELSE IF \E i \in 3..n : ~IsCont(bytes[i]) THEN [ok |-> FALSE, text |-> <<>>]
             ELSE LET rest == Utf8Decode(SubSeq(bytes, n + 1, Len(bytes)))
                  IN  IF rest.ok
                      THEN [ok |-> TRUE, text |-> <<Utf8Point(bytes, n)>> \o rest.text]
                      ELSE rest

BOM8 == <<239, 187, 191>>

\* reading a file as "utf-8-sig": a byte order mark at the start is dropped;
\* of fewer than three bytes that are the start of a byte order mark the
\* decoder makes nothing, waiting for the rest of the mark, and the text is
\* empty
Utf8SigDecode(bytes) ==
    IF Len(bytes) < 3 /\ bytes = SubSeq(BOM8, 1, Len(bytes))
    THEN [ok |-> TRUE, text |-> <<>>]
    ELSE IF Len(bytes) >= 3 /\ SubSeq(bytes, 1, 3) = BOM8
    THEN Utf8Decode(SubSeq(bytes, 4, Len(bytes)))
    ELSE Utf8Decode(bytes)

\* the 16-bit unit of two bytes
Unit(first, second, little) == IF little THEN second * 256 + first ELSE first * 256 + second

\* UTF-16 without a byte order mark to look at: an odd number of bytes and a
\* surrogate without its partner raise UnicodeDecodeError
RECURSIVE Utf16Units(_, _)
Utf16Units(bytes, little) ==
    IF bytes = <<>> THEN [ok |-> TRUE, text |-> <<>>]
    ELSE IF Len(bytes) < 2 THEN [ok |-> FALSE, text |-> <<>>]
    ELSE LET u == Unit(bytes[1], bytes[2], little)
         IN  IF u >= 56320 /\ u <= 57343 THEN [ok |-> FALSE, text |-> <<>>]
             ELSE IF u >= 55296 /\ u <= 56319
             THEN IF Len(bytes) < 4 THEN [ok |-> FALSE, text |-> <<>>]
                  ELSE LET v == Unit(bytes[3], bytes[4], little)
                           rest == Utf16Units(SubSeq(bytes, 5, Len(bytes)), little)
                       IN  IF v < 56320 \/ v > 57343 \/ ~rest.ok THEN [ok |-> FALSE, text |-> <<>>]
                           ELSE [ok |-> TRUE,
                                 text |-> <<65536 + (u - 55296) * 1024 + (v - 56320)>> \o rest.text]
             ELSE LET rest == Utf16Units(SubSeq(bytes, 3, Len(bytes)), little)
                  IN  IF rest.ok THEN [ok |-> TRUE, text |-> <<u>> \o rest.text] ELSE rest

\* what decoding makes of a result of the decoders above
Decoded(r) ==
    [ok |-> r.ok, text |-> r.text, raises |-> IF r.ok THEN "none" ELSE "UnicodeDecodeError"]

\* reading a file as "utf-16": a byte order mark at the start gives the byte
\* order and is dropped; without one the bytes are decoded in the machine's
\* order, little-endian, and when that has not failed the decoder raises
\* UnicodeError("UTF-16 stream does not start with BOM"), which is no
\* UnicodeDecodeError
Utf16Decode(bytes) ==
    IF Len(bytes) >= 2 /\ SubSeq(bytes, 1, 2) = <<255, 254>>
    THEN Decoded(Utf16Units(SubSeq(bytes, 3, Len(bytes)), TRUE))
    ELSE IF Len(bytes) >= 2 /\ SubSeq(bytes, 1, 2) = <<254, 255>>
    THEN Decoded(Utf16Units(SubSeq(bytes, 3, Len(bytes)), FALSE))
    ELSE IF Utf16Units(bytes, TRUE).ok /\ Len(bytes) >= 2
    THEN [ok |-> FALSE, text |-> <<>>, raises |-> "UnicodeError"]
    ELSE Decoded(Utf16Units(bytes, TRUE))

\* the decoding of a file's bytes when it is read with the encoding: the text,
\* or the exception raised.  latin-1 gives every byte its own code point and
\* never fails, so the encodings listed after it are never tried: they are
\* modelled for ASCII bytes only, which all of them decode alike.
DecodeWith(encoding, bytes) ==
    CASE encoding = "utf-8" -> Decoded(Utf8Decode(bytes))
      [] encoding = "utf-8-sig" -> Decoded(Utf8SigDecode(bytes))
      [] encoding = "utf-16" -> Utf16Decode(bytes)
      [] encoding = "utf-16-le" -> Decoded(Utf16Units(bytes, TRUE))
      [] encoding = "utf-16-be" -> Decoded(Utf16Units(bytes, FALSE))
      [] encoding \in {"latin-1", "iso-8859-1"} -> Decoded([ok |-> TRUE, text |-> bytes])
      [] OTHER -> Decoded([ok |-> \A i \in 1..Len(bytes) : bytes[i] < 128, text |-> bytes])

\* whether reading with the encoding succeeds
Decodes(encoding, bytes) == DecodeWith(encoding, bytes).ok

\* the decoded text where it succeeds
Decode(encoding, bytes) == DecodeWith(encoding, bytes).text

\* the newline translation of a file opened in text mode with newline=None:
\* "\r\n" and "\r" are read as "\n"
RECURSIVE UniversalNewlines(_)
UniversalNewlines(s) ==
    IF s = <<>> THEN <<>>
    ELSE IF s[1] = 13
         THEN NL \o UniversalNewlines(
                  IF Len(s) > 1 /\ s[2] = 10 THEN SubSeq(s, 3, Len(s)) ELSE Tail(s))
         ELSE <<s[1]>> \o UniversalNewlines(Tail(s))

\* Path.read_text(encoding=...)
ReadText(p, encoding) == UniversalNewlines(Decode(encoding, fs[p].bytes))

ErrorRecord(error, error_type, details) ==
    [ok |-> FALSE, error |-> error, error_type |-> error_type, details |-> details]

\* index of the first encoding of ENCODINGS[from..] with which reading does
\* not raise UnicodeDecodeError, the one exception the loop goes on after;
\* 0 if there is none
RECURSIVE FirstDecoding(_, _)
FirstDecoding(bytes, from) ==
    IF from > Len(ENCODINGS) THEN 0
    ELSE IF DecodeWith(ENCODINGS[from], bytes).raises # "UnicodeDecodeError" THEN from
    ELSE FirstDecoding(bytes, from + 1)

\* the encodings of ENCODINGS[from..] with which reading raises
\* UnicodeDecodeError, each standing for the message f"{encoding}: {str(e)}"
\* that the loop appends to decode_errors
RECURSIVE DecodeErrors(_, _)
DecodeErrors(bytes, from) ==
    IF from > Len(ENCODINGS) THEN <<>>
    ELSE IF DecodeWith(ENCODINGS[from], bytes).raises = "UnicodeDecodeError"
    THEN <<ENCODINGS[from]>> \o DecodeErrors(bytes, from + 1)
    ELSE DecodeErrors(bytes, from + 1)

\* the record returned when every encoding has failed: with the whole list of
\* encodings and decode_errors[:3], the errors of the loop over encodings[1:]
DetectionFailed(record, bytes) ==
    [ok |-> FALSE, error |-> record.error, error_type |-> record.error_type,
     details |-> record.details,
     attempted_encodings |-> ENCODINGS,
     decode_errors |-> LET errors == DecodeErrors(bytes, 2)
                       IN  SubSeq(errors, 1, IF Len(errors) < 3 THEN Len(errors) ELSE 3)]

\* read_text_file after its tests of existence and of binary content: the
\* file is read with one encoding after the other
ReadContent(p) ==
    IF fs[p].kind = "denied"
    THEN ErrorRecord("access_denied", <<80, 101, 114, 109, 105, 115, 115, 105, 111, 110, 69, 114, 114, 111, 114>> (* "PermissionError" *),
                     <<54028, 51068, 32, 51069, 44592, 32, 44428, 54620, 51060, 32, 50630, 51020, 58, 32>> (* "\ud30c\uc77c \uc77d\uae30 \uad8c\ud55c\uc774 \uc5c6\uc74c: " *) \o AbsPathStr(p))
    ELSE IF fs[p].kind = "dir"
    THEN ErrorRecord("read_error", <<73, 115, 65, 68, 105, 114, 101, 99, 116, 111, 114, 121, 69, 114, 114, 111, 114>> (* "IsADirectoryError" *),
                     <<54028, 51068, 32, 51069, 44592, 32, 51473, 32, 50724, 47448, 32, 48156, 49373, 58, 32, 91, 69, 114, 114, 110, 111, 32, 50, 49, 93, 32, 73, 115, 32, 97, 32, 100, 105, 114, 101, 99, 116, 111, 114, 121, 58, 32, 39>> (* "\ud30c\uc77c \uc77d\uae30 \uc911 \uc624\ub958 \ubc1c\uc0dd: [Errno 21] Is a directory: '" *)
                         \o AbsPathStr(p) \o <<39>> (* "'" *))
    ELSE LET k == FirstDecoding(fs[p].bytes, 1)
         IN  IF k = 0
             THEN DetectionFailed(ErrorRecord("encoding_detection_failed", <<85, 110, 105, 99, 111, 100, 101, 68, 101, 99, 111, 100, 101, 69, 114, 114, 111, 114>> (* "UnicodeDecodeError" *),
                              <<51648, 50896, 54616, 45716, 32, 47784, 46304, 32, 51064, 53076, 46377, 51004, 47196, 32, 54028, 51068, 51012, 32, 51069, 51012, 32, 49688, 32, 50630, 51020, 58, 32>> (* "\uc9c0\uc6d0\ud558\ub294 \ubaa8\ub4e0 \uc778\ucf54\ub529\uc73c\ub85c \ud30c\uc77c\uc744 \uc77d\uc744 \uc218 \uc5c6\uc74c: " *) \o AbsPathStr(p)),
                                  fs[p].bytes)
             ELSE IF ~Decodes(ENCODINGS[k], fs[p].bytes)
             THEN \* another exception than UnicodeDecodeError: except Exception
                  ErrorRecord("read_error", <<85, 110, 105, 99, 111, 100, 101, 69, 114, 114, 111, 114>> (* "UnicodeError" *),
                              <<54028, 51068, 32, 51069, 44592, 32, 51473, 32, 50724, 47448, 32, 48156, 49373, 58, 32, 85, 84, 70, 45, 49, 54, 32, 115, 116, 114, 101, 97, 109, 32, 100, 111, 101, 115, 32, 110, 111, 116, 32, 115, 116, 97, 114, 116, 32, 119, 105, 116, 104, 32, 66, 79, 77>> (* "\ud30c\uc77c \uc77d\uae30 \uc911 \uc624\ub958 \ubc1c\uc0dd: UTF-16 stream does not start with BOM" *))
             ELSE [ok |-> TRUE, text |-> ReadText(p, ENCODINGS[k])]

\* read_text_file without its test of binary content
read_text_file_ReadingBinary(p) ==
    IF ~Exists(p)
    THEN ErrorRecord("file_not_found", <<70, 105, 108, 101, 78, 111, 116, 70, 111, 117, 110, 100, 69, 114, 114, 111, 114>> (* "FileNotFoundError" *),
                     <<54028, 51068, 51060, 32, 51316, 51116, 54616, 51648, 32, 50506, 51020, 58, 32>> (* "\ud30c\uc77c\uc774 \uc874\uc7ac\ud558\uc9c0 \uc54a\uc74c: " *) \o AbsPathStr(p))
    ELSE ReadContent(p)

read_text_file(p) ==
    IF ~Exists(p)
    THEN ErrorRecord("file_not_found", <<70, 105, 108, 101, 78, 111, 116, 70, 111, 117, 110, 100, 69, 114, 114, 111, 114>> (* "FileNotFoundError" *),
                     <<54028, 51068, 51060, 32, 51316, 51116, 54616, 51648, 32, 50506, 51020, 58, 32>> (* "\ud30c\uc77c\uc774 \uc874\uc7ac\ud558\uc9c0 \uc54a\uc74c: " *) \o AbsPathStr(p))
    ELSE IF is_binary_file(p)
    THEN ErrorRecord("binary_file", <<84, 121, 112, 101, 69, 114, 114, 111, 114>> (* "TypeError" *),
                     <<48148, 51060, 45320, 47532, 32, 54028, 51068, 51008, 32, 53581, 49828, 53944, 47196, 32, 51069, 51012, 32, 49688, 32, 50630, 51020, 58, 32>> (* "\ubc14\uc774\ub108\ub9ac \ud30c\uc77c\uc740 \ud14d\uc2a4\ud2b8\ub85c \uc77d\uc744 \uc218 \uc5c6\uc74c: " *) \o AbsPathStr(p))
    ELSE ReadContent(p)

(***************************************************************************)
(* output_formatter.py: generate_file_map.                                 *)
(*                                                                         *)
(* The nested dict `tree` is the function from the path of each of its     *)
(* keys to "None" (a directory leaf), "True" (a file leaf) or "dict" (a    *)
(* nested dict, whose keys are the paths one component longer).            *)
(***************************************************************************)
IsPrefix(p, q) == Len(p) <= Len(q) /\ SubSeq(q, 1, Len(p)) = p
IsStrictPrefix(p, q) == Len(p) < Len(q) /\ SubSeq(q, 1, Len(p)) = p

\* the sort key of both sorts: str(x.get('rel_path', ''))
RelPathKey(item) == RelPathStr(item.rel_path)

\* sorted(..., key=RelPathKey) is stable: an item goes after every item
\* already placed whose key is not greater than its own
RECURSIVE InsertByRelPath(_, _)
InsertByRelPath(placed, item) ==
    IF placed = <<>> THEN <<item>>
    ELSE IF StrLess(RelPathKey(item), RelPathKey(placed[1])) THEN <<item>> \o placed
    ELSE <<placed[1]>> \o InsertByRelPath(Tail(placed), item)

\* the list given to list.sort(), which sorts it in place
GivenAfterSorted_InPlace(given, sorted_list) == sorted_list

\* the list given to sorted(), which makes a new list and leaves the one
\* given as it was
GivenAfterSorted(given, sorted_list) == given

RECURSIVE SortedByRelPath(_)
SortedByRelPath(items) ==
    IF items = <<>> THEN <<>>
    ELSE InsertByRelPath(SortedByRelPath(SubSeq(items, 1, Len(items) - 1)),
                         items[Len(items)])

\* parts = [p for p in parts if p and p != '.']
RECURSIVE ValidParts(_)
ValidParts(parts) ==
    IF parts = <<>> THEN <<>>
    ELSE IF parts[1] # <<>> /\ parts[1] # DOT
         THEN <<parts[1]>> \o ValidParts(Tail(parts))
         ELSE ValidParts(Tail(parts))

\* current[part] = value for the last part: whatever was below the key goes
\* with the value it replaces
TreeSetLeaf(tree, p, value) ==
    [q \in {r \in DOMAIN tree : ~IsStrictPrefix(p, r)} \cup {p} |->
        IF q = p THEN value ELSE tree[q]]

\* an intermediate part: a missing key, a None and a True become a new dict,
\* a dict is kept
TreeEnsureDict(tree, p) ==
    IF p \in DOMAIN tree /\ tree[p] = "dict" THEN tree
    ELSE [q \in DOMAIN tree \cup {p} |-> IF q = p THEN "dict" ELSE tree[q]]

\* the value stored for the last part: None if is_dir else True
LeafValue(is_dir) == IF is_dir = TRUE THEN "None" ELSE "True"

\* TreeWalk storing the last part only, no dict for the parts before it
TreeWalk_LeafOnly(tree, parts, i, is_dir) ==
    [q \in DOMAIN tree \cup {parts} |-> IF q = parts THEN LeafValue(is_dir) ELSE tree[q]]

\* for i, part in enumerate(parts), from the i-th part on
RECURSIVE TreeWalk(_, _, _, _)
TreeWalk(tree, parts, i, is_dir) ==
    IF i > Len(parts) THEN tree
    ELSE IF i = Len(parts) THEN TreeSetLeaf(tree, parts, LeafValue(is_dir))
    ELSE TreeWalk(TreeEnsureDict(tree, SubSeq(parts, 1, i)), parts, i + 1, is_dir)

\* one turn of the loop over sorted_items
TreeAddItem(tree, item) ==
    IF item.rel_path = <<>> THEN tree                       \* the root item
    ELSE IF ValidParts(item.rel_path) = <<>> THEN tree
    ELSE TreeWalk(tree, ValidParts(item.rel_path), 1, item.is_dir)

RECURSIVE BuildTree(_)
BuildTree(sorted_items) ==
    IF sorted_items = <<>> THEN <<>>
    ELSE TreeAddItem(BuildTree(SubSeq(sorted_items, 1, Len(sorted_items) - 1)),
                     sorted_items[Len(sorted_items)])

\* the keys of the dict at `node`
NodeNames(tree, node) ==
    {p[Len(p)] : p \in {q \in DOMAIN tree : Len(q) = Len(node) + 1 /\ IsPrefix(node, q)}}

\* SortedNames in descending order
RECURSIVE SortedNames_Descending(_)
SortedNames_Descending(names) ==
    IF names = {} THEN <<>>
    ELSE LET greatest == CHOOSE n \in names : \A m \in names \ {n} : StrLess(m, n)
         IN  <<greatest>> \o SortedNames_Descending(names \ {greatest})

\* sorted(node.items()): the keys of a dict are distinct, so the pairs are in
\* the order of their names
RECURSIVE SortedNames(_)
SortedNames(names) ==
    IF names = {} THEN <<>>
    ELSE LET least == CHOOSE n \in names : \A m \in names \ {n} : StrLess(n, m)
         IN  <<least>> \o SortedNames(names \ {least})

Connector(is_last_item) ==
    IF is_last_item THEN <<9492, 9472, 9472, 32>> (* "\u2514\u2500\u2500 " *) ELSE <<9500, 9472, 9472, 32>> (* "\u251c\u2500\u2500 " *)

\* NextPrefix continuing the parent's line below its last child as well
NextPrefix_AlwaysPipe(parent_prefix, is_last_item) ==
    parent_prefix \o <<9474, 32, 32, 32>> (* "\u2502   " *)

NextPrefix(parent_prefix, is_last_item) ==
    IF is_last_item THEN parent_prefix \o <<32, 32, 32, 32>> (* "    " *) ELSE parent_prefix \o <<9474, 32, 32, 32>> (* "\u2502   " *)

\* the "/" of a directory: value is None or a dict
DirMark(value) == IF value = "None" \/ value = "dict" THEN SLASH ELSE <<>>

RECURSIVE _traverse_tree(_, _, _)
_traverse_tree(tree, node, parent_prefix) ==
    LET items == SortedNames(NodeNames(tree, node))
        num_items == Len(items)
        Turn(i) ==
            LET name == items[i]
                value == tree[Append(node, name)]
                is_last_item == (i = num_items)
                current_line == parent_prefix \o Connector(is_last_item) \o name
                                    \o DirMark(value)
            IN  <<current_line>> \o
                (IF value = "dict"
                 THEN _traverse_tree(tree, Append(node, name),
                                     NextPrefix(parent_prefix, is_last_item))
                 ELSE <<>>)
        RECURSIVE Loop(_)
        Loop(i) == IF i > num_items THEN <<>> ELSE Turn(i) \o Loop(i + 1)
    IN  Loop(1)

\* Path(root_path).name, or "project" when it is empty
RootName(root) == IF root = <<>> THEN <<112, 114, 111, 106, 101, 99, 116>> (* "project" *) ELSE root[Len(root)]

\* the list `lines`
FileMapLines(items, root) ==
    LET tree == BuildTree(SortedByRelPath(items))
    IN  << <<60, 102, 105, 108, 101, 95, 109, 97, 112, 62>> (* "<file_map>" *), RootName(root) \o SLASH >>
        \o (IF DOMAIN tree = {}
            THEN << <<47, 47, 32, 49440, 53469, 46108, 32, 54637, 47785, 51060, 32, 50630, 44144, 45208, 32, 52376, 47532, 54624, 32, 49688, 32, 50630, 49845, 45768, 45796, 46>> (* "// \uc120\ud0dd\ub41c \ud56d\ubaa9\uc774 \uc5c6\uac70\ub098 \ucc98\ub9ac\ud560 \uc218 \uc5c6\uc2b5\ub2c8\ub2e4." *) >>
            ELSE _traverse_tree(tree, <<>>, <<>>))
        \o << <<60, 47, 102, 105, 108, 101, 95, 109, 97, 112, 62>> (* "</file_map>" *) >>

generate_file_map(items, root) == Join(FileMapLines(items, root), NL)

(***************************************************************************)
(* output_formatter.py: generate_full_output, generate_file_contents.      *)
(***************************************************************************)
\* path.relative_to(root_path), or Path(path.name) on ValueError
RelPath(path, root) ==
    IF IsPrefix(root, path) THEN SubSeq(path, Len(root) + 1, Len(path))
    ELSE IF path = <<>> THEN <<>>
    ELSE <<path[Len(path)]>>

MakeItem(path, root) ==
    [path |-> path, rel_path |-> RelPath(path, root), is_dir |-> IsDir(path)]

\* the paths of a list of items
PathsOf(items) == [i \in 1..Len(items) |-> items[i].path]

\* the list `items` built from file_paths
MakeItems(paths, root) == [i \in 1..Len(paths) |-> MakeItem(paths[i], root)]

\* [item for item in items if not item.get('is_dir', True)]
\* FileItems without its test of is_dir: directories get blocks too
FileItems_KeepingDirs(items) == items

RECURSIVE FileItems(_)
FileItems(items) ==
    IF items = <<>> THEN <<>>
    ELSE IF items[1].is_dir = FALSE THEN <<items[1]>> \o FileItems(Tail(items))
    ELSE FileItems(Tail(items))

Language(path) ==
    DictGet(EXTENSION_TO_LANGUAGE, Lower(Suffix(path[Len(path)])), <<116, 101, 120, 116>> (* "text" *))

\* FullContent reading the file whatever the cache holds
FullContent_IgnoringCache(path, cache) ==
    LET result == read_text_file(path)
    IN  IF ~result.ok
        THEN <<47, 47, 32, 69, 114, 114, 111, 114, 58, 32>> (* "// Error: " *) \o result.error_type \o <<32, 45, 32>> (* " - " *) \o result.details
        ELSE result.text

\* the content of a file's block in generate_full_output
FullContent(path, cache) ==
    IF path \in DOMAIN cache THEN cache[path]
    ELSE LET result == read_text_file(path)
         IN  IF ~result.ok
             THEN <<47, 47, 32, 69, 114, 114, 111, 114, 58, 32>> (* "// Error: " *) \o result.error_type \o <<32, 45, 32>> (* " - " *) \o result.details
             ELSE result.text

\* the content of a file's block in generate_file_contents
PlainContent(path) ==
    LET result == read_text_file(path)
    IN  IF ~result.ok
        THEN <<47, 47, 32, 50724, 47448, 58, 32>> (* "// \uc624\ub958: " *) \o result.error_type \o <<32, 45, 32>> (* " - " *) \o result.details
        ELSE result.text

\* the five list entries appended for one file
Block(item, content) ==
    << <<70, 105, 108, 101, 58, 32>> (* "File: " *) \o RelPathStr(item.rel_path),
       <<96, 96, 96>> (* "```" *) \o Language(item.path),
       content,
       <<96, 96, 96>> (* "```" *),
       <<>> >>

RECURSIVE FullBlocks(_, _)
FullBlocks(sorted_items, cache) ==
    IF sorted_items = <<>> THEN <<>>
    ELSE Block(sorted_items[1], FullContent(sorted_items[1].path, cache))
         \o FullBlocks(Tail(sorted_items), cache)

RECURSIVE PlainBlocks(_)
PlainBlocks(sorted_items) ==
    IF sorted_items = <<>> THEN <<>>
    ELSE Block(sorted_items[1], PlainContent(sorted_items[1].path))
         \o PlainBlocks(Tail(sorted_items))

\* the list `contents` of generate_full_output
FullContents(items, cache) ==
    << <<60, 102, 105, 108, 101, 95, 99, 111, 110, 116, 101, 110, 116, 115, 62>> (* "<file_contents>" *) >>
    \o FullBlocks(SortedByRelPath(FileItems(items)), cache)
    \o << <<60, 47, 102, 105, 108, 101, 95, 99, 111, 110, 116, 101, 110, 116, 115, 62>> (* "</file_contents>" *) >>

\* f"{file_map}\n\n{'\n'.join(contents)}"
Compose(file_map, contents) == file_map \o NL \o NL \o Join(contents, NL)

generate_full_output(root, paths, cache) ==
    LET items == MakeItems(paths, root)
    IN  Compose(generate_file_map(items, root), FullContents(items, cache))

\* the list `contents` of generate_file_contents
PlainContents(items) ==
    << <<60, 102, 105, 108, 101, 95, 99, 111, 110, 116, 101, 110, 116, 115, 62>> (* "<file_contents>" *) >>
    \o PlainBlocks(SortedByRelPath(FileItems(items)))
    \o << <<60, 47, 102, 105, 108, 101, 95, 99, 111, 110, 116, 101, 110, 116, 115, 62>> (* "</file_contents>" *) >>

\* the names generate_file_contents can read when it returns: its parameters
\* and locals, and the names output_formatter.py binds at module level
FileContentsNames ==
    {"items", "root_path", "contents", "sorted_items", "item", "file_path",
     "rel_path", "rel_path_str", "file_ext", "language", "result",
     "error_type", "details", "content",
     "logging", "os", "Path", "List", "Dict", "Any", "Optional", "Union",
     "read_text_file", "logger", "EXTENSION_TO_LANGUAGE", "generate_file_map",
     "generate_file_contents", "generate_full_output"}

\* generate_file_contents: its return statement reads file_map
generate_file_contents(items, root) ==
    IF "file_map" \in FileContentsNames
    THEN [status |-> "returned", result |-> Join(PlainContents(items), NL)]
    ELSE [status |-> "raised", result |-> "NameError"]

(***************************************************************************)
(* The formatter's calls.                                                  *)
(***************************************************************************)
\* the selections: lists of distinct paths, as a set of checked items gives
Selections ==
    UNION {{s \in [1..n -> Universe] : \A i, j \in 1..n : s[i] = s[j] => i = j}
           : n \in 0..MaxSel}

Range(s) == {s[i] : i \in 1..Len(s)}

\* file_cache: None, or the texts the window cached when the files were shown
CachedText == <<99, 97, 99, 104, 101, 100>> (* "cached" *)
Caches(paths) ==
    {<<>>} \cup {[p \in (Range(paths) \cap {P_a_h, P_z_xyz}) |-> CachedText]}

\* a call leaves what it returned (`result`) and the lists it joined into it:
\* `lines` of generate_file_map and `contents`
NoCall == [op |-> "none", status |-> "none", result |-> <<>>,
           lines |-> <<>>, contents |-> <<>>]

\* sort_items not called
NoSort == [items |-> <<>>, sort_by |-> "name", reverse |-> FALSE, called |-> FALSE, result |-> <<>>]

SortIdle == sort_call = NoSort

\* no filter made, should_ignore not called
NoFilter == [root_dir |-> <<>>, loaded |-> FALSE, spec |-> <<>>, absolute |-> FALSE, parts |-> <<>>,
             called |-> FALSE, result |-> FALSE]

FilterIdle == filter_call = NoFilter

\* read_text_file not called
NoRead == [path |-> <<>>, called |-> FALSE, binary |-> FALSE, result |-> [ok |-> FALSE]]

ReadIdle == read_call = NoRead

\* no Tokenizer made
NoToken ==
    [made |-> FALSE, failed |-> FALSE, argument |-> "", model_name |-> "",
     encoding |-> "", calls |-> 0, called |-> FALSE,
     text |-> [none |-> TRUE, chars |-> <<>>],
     encoded |-> [called |-> FALSE, raises |-> FALSE, tokens |-> <<>>],
     outcome |-> [raised |-> FALSE, value |-> 0],
     models |-> <<>>, asked |-> "", max_tokens |-> <<>>]

TokenIdle == token_call = NoToken

\* generate_file_map not called on a list of items
NoMap == [items |-> <<>>, root |-> <<>>, called |-> FALSE, lines |-> <<>>, result |-> <<>>]

MapIdle == map_call = NoMap

\* load_folder not called
NoLoad ==
    [folder |-> <<>>, gitignore |-> [exists |-> FALSE, spec |-> <<>>],
     show_hidden |-> FALSE, apply_gitignore_rules |-> FALSE, called |-> FALSE,
     gitignore_filter |-> [root_dir |-> <<>>, loaded |-> FALSE, spec |-> <<>>],
     items |-> <<>>]

LoadIdle == load_call = NoLoad

\* no token worker made, the main thread in its event loop
NoThreads ==
    [workers |-> <<>>, queue |-> <<>>, token_cache |-> <<>>, main |-> "loop", loads |-> 0]

ThreadsIdle == threads = NoThreads

\* no copy asked for
NoCopy == [called |-> FALSE]

CopyIdle == copy_call = NoCopy

\* no folder shown in the tree
NoTree == [state |-> <<>>, checked_items |-> {}, changed |-> <<>>]

TreeIdle == tree_items = NoTree

\* no scan made before this one
NoScan == [scanned |-> FALSE, include_hidden |-> FALSE, paths |-> {}]

\* no scan in progress, nothing on disk to scan
ScanIdle ==
    /\ root_kind = "missing"
    /\ disk = <<>>
    /\ include_hidden = FALSE
    /\ follow_symlinks = FALSE
    /\ scan_pc = "idle"
    /\ scan_error = "none"
    /\ scan_items = <<>>
    /\ scan_stack = <<>>
    /\ scan_prev = NoScan

\* the formatter not called, nothing selected
FmtIdle ==
    /\ root_path = P_proj
    /\ file_paths = <<>>
    /\ file_cache = <<>>
    /\ fs = Disk({})
    /\ call = NoCall

InitFmt ==
    /\ root_path \in Roots
    /\ file_paths \in Selections
    /\ file_cache \in Caches(file_paths)
    /\ \E other \in SUBSET Range(file_paths) : fs = Disk(other)
    /\ call = NoCall
    /\ ScanIdle
    /\ SortIdle
    /\ FilterIdle
    /\ ReadIdle
    /\ TokenIdle
    /\ MapIdle
    /\ LoadIdle
    /\ ThreadsIdle
    /\ CopyIdle
    /\ TreeIdle

CallFileMap ==
    LET items == MakeItems(file_paths, root_path)
    IN  /\ call' = [op |-> "generate_file_map", status |-> "returned",
                    result |-> generate_file_map(items, root_path),
                    lines |-> FileMapLines(items, root_path),
                    contents |-> <<>>]
        \* the list given, after sorted(items, key=...) at line 89
        /\ file_paths' = PathsOf(GivenAfterSorted(items, SortedByRelPath(items)))
        /\ UNCHANGED <<root_path, file_cache, fs, scan_vars, more_vars>>

CallFileContents ==
    LET items == MakeItems(file_paths, root_path)
        got == generate_file_contents(items, root_path)
    IN  /\ call' = [op |-> "generate_file_contents", status |-> got.status,
                    result |-> got.result,
                    lines |-> <<>>,
                    contents |-> PlainContents(items)]
        /\ UNCHANGED <<root_path, file_paths, file_cache, fs, scan_vars, more_vars>>

CallFullOutput ==
    LET items == MakeItems(file_paths, root_path)
    IN  /\ call' = [op |-> "generate_full_output", status |-> "returned",
                    result |-> generate_full_output(root_path, file_paths, file_cache),
                    lines |-> FileMapLines(items, root_path),
                    contents |-> FullContents(items, file_cache)]
        /\ UNCHANGED <<root_path, file_paths, file_cache, fs, scan_vars, more_vars>>

NextFmt == CallFileMap \/ CallFileContents \/ CallFullOutput

SpecFmt == InitFmt /\ [][NextFmt]_vars

(***************************************************************************)
(* file_scanner.py: scan_directory, _scan_directory_recursive, is_hidden.  *)
(*                                                                         *)
(* The scanned root is /proj.  Below it the disk holds any of six entries: *)
(* d, .h, l, d/f, d/.g and .h/k.  An entry is a file, a directory (one     *)
(* that can be listed and searched, one that cannot be listed, one that    *)
(* can be listed but not searched, so that inspecting its entries is       *)
(* refused), or a symbolic link (to a file, to an empty directory          *)
(* elsewhere, or to a target that may not be inspected).  Path.is_symlink  *)
(* and Path.is_dir raise PermissionError when the lstat or stat they make  *)
(* is refused; listing a directory needs no right to search it.            *)
(***************************************************************************)
N_d == <<100>> (* "d" *)
N_dot_h == <<46, 104>> (* ".h" *)
N_l == <<108>> (* "l" *)
N_f == <<102>> (* "f" *)
N_dot_g == <<46, 103>> (* ".g" *)
N_k == <<107>> (* "k" *)

Slots == {<<N_d>>, <<N_dot_h>>, <<N_l>>, <<N_d, N_f>>, <<N_d, N_dot_g>>, <<N_dot_h, N_k>>}

DirKinds == {"dir", "dir_nolist", "dir_nosearch"}
LinkKinds == {"link_file", "link_dir", "link_denied"}

KindsAt(p) ==
    CASE p = <<N_d>> -> {"absent", "file"} \cup DirKinds
      [] p = <<N_dot_h>> -> {"absent", "file", "dir", "link_denied"}
      [] p = <<N_l>> -> {"absent", "file"} \cup LinkKinds
      [] p = <<N_d, N_f>> -> {"absent", "file", "dir"}
      [] p = <<N_d, N_dot_g>> -> {"absent", "file"}
      [] p = <<N_dot_h, N_k>> -> {"absent", "file"}

\* the disks: an entry exists only in a directory, and at most MaxEntries do
Trees ==
    {t \in [Slots -> {"absent", "file", "link_file", "link_dir", "link_denied"} \cup DirKinds] :
        /\ \A p \in Slots : t[p] \in KindsAt(p)
        /\ \A p \in Slots : (Len(p) > 1 /\ t[p] # "absent") => t[Parent(p)] \in DirKinds
        /\ Cardinality({p \in Slots : t[p] # "absent"}) <= MaxEntries}

\* "noaccess": the root lies in a directory that may not be searched, so that
\* root_path.exists() is refused
RootKinds == {"dir", "dir_nolist", "file", "missing", "noaccess"}

KindOf(p) == IF p = <<>> THEN root_kind ELSE disk[p]

\* the names current_path.iterdir() yields
ChildNames(p) == {q[Len(q)] : q \in {r \in Slots : Parent(r) = p /\ disk[r] # "absent"}}

\* is_hidden(path): the name starts with "." (os.name is not 'nt')
is_hidden(path) == path # <<>> /\ path[Len(path)] # <<>> /\ path[Len(path)][1] = DOT[1]

\* the root item of scan_directory
RootItem ==
    [path |-> P_proj, rel_path |-> <<>>, is_dir |-> TRUE, is_symlink |-> FALSE,
     is_hidden |-> is_hidden(P_proj), error |-> "none"]

\* an item of _scan_directory_recursive
ScanItem(rel, is_dir, is_symlink, is_hidden_item) ==
    [path |-> P_proj \o rel, rel_path |-> rel, is_dir |-> is_dir,
     is_symlink |-> is_symlink, is_hidden |-> is_hidden_item, error |-> "none"]

\* the item appended when inspecting a child raised PermissionError
DeniedItem(rel, is_symlink) ==
    [path |-> P_proj \o rel, rel_path |-> rel, is_dir |-> "None",
     is_symlink |-> is_symlink, is_hidden |-> is_hidden(rel), error |-> "access_denied"]

\* a call of _scan_directory_recursive: processed_paths as computed on entry,
\* and the entries iterdir() has still to yield
Frame(current_path, items) ==
    [current_path |-> current_path,
     todo |-> ChildNames(current_path),
     processed_paths |-> {items[i].rel_path : i \in 1..Len(items)}]

\* the stack after _scan_directory_recursive(current_path) is called: listing
\* a directory that cannot be listed raises PermissionError at once, which the
\* call catches, and it returns
Enter(stack, current_path, items) ==
    IF KindOf(current_path) = "dir_nolist" THEN stack
    ELSE Append(stack, Frame(current_path, items))

Top == scan_stack[Len(scan_stack)]
Below == SubSeq(scan_stack, 1, Len(scan_stack) - 1)

\* Remaining with the entry yielded again and again
Remaining_Same(todo, name) == todo

\* what iterdir() has still to yield after it has yielded the entry `name`
Remaining(todo, name) == todo \ {name}

\* Listed without the hidden test
Listed_Always(is_hidden_item) == TRUE

\* whether the hidden test lets the child through
Listed(is_hidden_item) == ~(is_hidden_item /\ ~include_hidden)

\* ListedIsDir reporting what the link points to
ListedIsDir_OfTarget(is_symlink, is_dir) == is_dir

\* if is_symlink and not follow_symlinks: is_dir = False
ListedIsDir(is_symlink, is_dir) ==
    IF is_symlink /\ ~follow_symlinks THEN FALSE ELSE is_dir

\* if is_dir and (not is_symlink or follow_symlinks): recurse
Recurses(is_dir, is_symlink) == is_dir /\ (~is_symlink \/ follow_symlinks)

InitScan ==
    /\ root_kind \in RootKinds
    /\ disk \in Trees
    /\ root_kind \in {"file", "missing", "noaccess"} => \A p \in Slots : disk[p] = "absent"
    /\ include_hidden \in BOOLEAN
    /\ follow_symlinks \in BOOLEAN
    /\ scan_pc = "idle"
    /\ scan_error = "none"
    /\ scan_items = <<>>
    /\ scan_stack = <<>>
    /\ scan_prev = NoScan
    /\ FmtIdle
    /\ SortIdle
    /\ FilterIdle
    /\ ReadIdle
    /\ TokenIdle
    /\ MapIdle
    /\ LoadIdle
    /\ ThreadsIdle
    /\ CopyIdle
    /\ TreeIdle

\* RootError without the test of is_dir
RootError_ExistsOnly(kind) ==
    CASE kind = "noaccess" -> "PermissionError"
      [] kind = "missing" -> "FileNotFoundError"
      [] OTHER -> "none"

\* what the tests of the root raise: exists() is refused with PermissionError,
\* not exists() gives FileNotFoundError, not is_dir() gives ValueError
RootError(kind) ==
    CASE kind = "noaccess" -> "PermissionError"
      [] kind = "missing" -> "FileNotFoundError"
      [] kind = "file" -> "ValueError"
      [] OTHER -> "none"

\* scan_directory up to its call of _scan_directory_recursive
ScanStart ==
    /\ scan_pc = "idle"
    /\ IF RootError(root_kind) # "none"
       THEN /\ scan_pc' = "raised"
            /\ scan_error' = RootError(root_kind)
            /\ UNCHANGED <<scan_items, scan_stack>>
       ELSE /\ scan_items' = <<RootItem>>
            /\ scan_stack' = Enter(<<>>, <<>>, <<RootItem>>)
            /\ scan_pc' = IF Enter(<<>>, <<>>, <<RootItem>>) = <<>> THEN "done" ELSE "scanning"
            /\ UNCHANGED scan_error
    /\ UNCHANGED <<root_kind, disk, include_hidden, follow_symlinks, scan_prev, fmt_vars, more_vars>>

\* one turn of `for path in current_path.iterdir()`, in whatever order the
\* directory yields its entries
ScanChild ==
    /\ scan_pc = "scanning"
    /\ \E name \in Top.todo :
        LET path == Append(Top.current_path, name)
            kind == disk[path]
            is_symlink == kind \in LinkKinds
            is_dir == kind \in DirKinds \/ kind = "link_dir"
            is_hidden_item == is_hidden(path)
            listed_is_dir == ListedIsDir(is_symlink, is_dir)
            item == ScanItem(path, listed_is_dir, is_symlink, is_hidden_item)
            rest == [Top EXCEPT !.todo = Remaining(@, name)]
            added == [rest EXCEPT !.processed_paths = @ \cup {path}]
        IN  IF path \in Top.processed_paths
            THEN /\ scan_stack' = Append(Below, rest)
                 /\ UNCHANGED scan_items
            ELSE IF KindOf(Top.current_path) = "dir_nosearch"
            THEN \* is_symlink() raises PermissionError; so does the handler's
                 \* own is_symlink(), and the call ends in its outer handler
                 /\ scan_stack' = Below
                 /\ UNCHANGED scan_items
            ELSE IF kind = "link_denied"
            THEN \* is_dir() raises PermissionError: the handler lists the child
                 /\ scan_items' = Append(scan_items, DeniedItem(path, TRUE))
                 /\ scan_stack' = Append(Below, added)
            ELSE IF ~Listed(is_hidden_item)
            THEN /\ scan_stack' = Append(Below, rest)
                 /\ UNCHANGED scan_items
            ELSE /\ scan_items' = Append(scan_items, item)
                 /\ scan_stack' =
                        IF Recurses(listed_is_dir, is_symlink)
                        THEN Enter(Append(Below, added), path, Append(scan_items, item))
                        ELSE Append(Below, added)
    /\ scan_pc' = IF scan_stack' = <<>> THEN "done" ELSE "scanning"
    /\ UNCHANGED <<root_kind, disk, include_hidden, follow_symlinks, scan_error,
                   scan_prev, fmt_vars, more_vars>>

\* the loop of a call is over: the call returns
ScanReturn ==
    /\ scan_pc = "scanning"
    /\ Top.todo = {}
    /\ scan_stack' = Below
    /\ scan_pc' = IF Below = <<>> THEN "done" ELSE "scanning"
    /\ UNCHANGED <<root_kind, disk, include_hidden, follow_symlinks, scan_error,
                   scan_items, scan_prev, fmt_vars, more_vars>>

\* the same disk is scanned once more, with the other include_hidden
ScanAgain ==
    /\ scan_pc = "done"
    /\ ~scan_prev.scanned
    /\ scan_prev' = [scanned |-> TRUE, include_hidden |-> include_hidden,
                     paths |-> {scan_items[i].rel_path : i \in 1..Len(scan_items)}]
    /\ include_hidden' = ~include_hidden
    /\ scan_pc' = "idle"
    /\ scan_items' = <<>>
    /\ UNCHANGED <<root_kind, disk, follow_symlinks, scan_error, scan_stack, fmt_vars, more_vars>>

NextScan == ScanStart \/ ScanChild \/ ScanReturn \/ ScanAgain

SpecScan == InitScan /\ [][NextScan]_vars

\* one call of scan_directory that does not follow links, from the call to
\* its return; the interpreter runs the call's loops on
InitScanOnce == InitScan /\ ~follow_symlinks

NextScanOnce == ScanStart \/ ScanChild \/ ScanReturn

SpecScanOnce == InitScanOnce /\ [][NextScanOnce]_vars /\ WF_vars(ScanChild \/ ScanReturn)

(***************************************************************************)
(* sort_utils.py: sort_items.  The entries sorted are dicts: those the     *)
(* scanner makes (path, rel_path, is_dir, is_symlink, is_hidden, error)    *)
(* and entries with the keys sort_key asks for (name, size, modified).     *)
(* All values have the types sort_key expects, so that sorted() does not   *)
(* raise and the except branch of lines 50-52 is not taken.                *)
(***************************************************************************)
MaxItems == 3       \* longest list handed to sort_items

N_b == <<98>> (* "b" *)
N_A == <<65>> (* "A" *)
N_A_z == <<65, 46, 122>> (* "A.z" *)
N_c_Z == <<99, 46, 90>> (* "c.Z" *)

\* item.get(key, default)
ItemGet(item, key, default) == IF key \in DOMAIN item THEN item[key] ELSE default

\* entries as _scan_directory_recursive appends them
ScannedEntries ==
    {ScanItem(<<n>>, d, FALSE, FALSE) : n \in {N_b, N_A}, d \in BOOLEAN}
    \cup {DeniedItem(<<N_l>>, TRUE)}

\* entries that carry the keys of sort_key
NamedEntries ==
    {[name |-> n, is_dir |-> d, size |-> z, modified |-> 3 - z] :
        n \in {N_b, N_A_z, N_c_Z}, d \in BOOLEAN, z \in {1, 2}}

SortEntries == ScannedEntries \cup NamedEntries

SortBys == {"name", "size", "type", "date", "other"}

\* not item.get("is_dir", False); is_dir is None in the entries that carry
\* the error marker, and not None is True
NotIsDir(item) ==
    IF "error" \in DOMAIN item /\ item.error = "access_denied" THEN TRUE
    ELSE ~ItemGet(item, "is_dir", FALSE)

\* sort_key(item), as a record: k1 is not is_dir, k2 and k3 what follows it
sort_key(item, sort_by) ==
    LET name == ItemGet(item, "name", <<>>)
    IN  CASE sort_by = "size" ->
                [k1 |-> NotIsDir(item), k2 |-> ItemGet(item, "size", 0), k3 |-> <<>>]
          [] sort_by = "type" ->
                [k1 |-> NotIsDir(item),
                 k2 |-> IF name # <<>> THEN Lower(Suffix(name)) ELSE <<>>,
                 k3 |-> Lower(name)]
          [] sort_by = "date" ->
                [k1 |-> NotIsDir(item), k2 |-> ItemGet(item, "modified", 0), k3 |-> <<>>]
          [] OTHER ->
                [k1 |-> NotIsDir(item), k2 |-> Lower(name), k3 |-> <<>>]

\* a < b on the tuples sort_key returns: the first elements that differ
\* decide, False being less than True
KeyLess(a, b, sort_by) ==
    IF a.k1 # b.k1 THEN b.k1
    ELSE IF a.k2 # b.k2
         THEN IF sort_by \in {"size", "date"} THEN a.k2 < b.k2 ELSE StrLess(a.k2, b.k2)
    ELSE StrLess(a.k3, b.k3)

\* whether item is to stand before other: sorted() with reverse=True sorts
\* in descending order of the keys
Before(item, other, sort_by, reverse) ==
    IF reverse THEN KeyLess(sort_key(other, sort_by), sort_key(item, sort_by), sort_by)
    ELSE KeyLess(sort_key(item, sort_by), sort_key(other, sort_by), sort_by)

\* sorted() is stable, also with reverse=True: an item is placed before the
\* first placed item it is to stand before, and after the others
InsertStable(placed, item, sort_by, reverse) ==
    LET later == {i \in 1..Len(placed) : Before(item, placed[i], sort_by, reverse)}
        at == IF later = {} THEN Len(placed) + 1
              ELSE CHOOSE i \in later : \A j \in later : i <= j
    IN  SubSeq(placed, 1, at - 1) \o <<item>> \o SubSeq(placed, at, Len(placed))

RECURSIVE Sorted(_, _, _)
Sorted(items, sort_by, reverse) ==
    IF items = <<>> THEN <<>>
    ELSE InsertStable(Sorted(SubSeq(items, 1, Len(items) - 1), sort_by, reverse),
                      items[Len(items)], sort_by, reverse)

sort_items(items, sort_by, reverse) == Sorted(items, sort_by, reverse)

SortInputs == UNION {[1..n -> SortEntries] : n \in 0..MaxItems}

InitSort ==
    /\ \E items \in SortInputs, sort_by \in SortBys, reverse \in BOOLEAN :
          sort_call = [items |-> items, sort_by |-> sort_by, reverse |-> reverse,
                       called |-> FALSE, result |-> <<>>]
    /\ FmtIdle
    /\ ScanIdle
    /\ FilterIdle
    /\ ReadIdle
    /\ TokenIdle
    /\ MapIdle
    /\ LoadIdle
    /\ ThreadsIdle
    /\ CopyIdle
    /\ TreeIdle

CallSort ==
    /\ ~sort_call.called
    /\ sort_call' = [sort_call EXCEPT
                        !.called = TRUE,
                        \* the list given, after sorted(items, ...) at line 49
                        !.items = GivenAfterSorted(
                                      sort_call.items,
                                      sort_items(sort_call.items, sort_call.sort_by,
                                                 sort_call.reverse)),
                        !.result = sort_items(sort_call.items, sort_call.sort_by, sort_call.reverse)]
    /\ UNCHANGED <<fmt_vars, scan_vars, filter_call, read_call, token_call, map_call, load_call, threads, copy_call, tree_items>>

NextSort == CallSort

SpecSort == InitSort /\ [][NextSort]_vars

(***************************************************************************)
(* filter.py: GitignoreFilter.  self.spec is None when no .gitignore was   *)
(* loaded (loaded is FALSE), else the list of the patterns of the file.    *)
(* The patterns are                                                        *)
(* those of pathspec's GitWildMatchPattern that are a plain name ("x",     *)
(* which matches every path with a component x) or "*" (which matches      *)
(* every path with a component), each as it stands or negated with "!".    *)
(* PathSpec.match_file strips a leading "/" or "./" from the string it is  *)
(* given and nothing else, and the last pattern that matches decides.      *)
(***************************************************************************)
MaxDepth == 3       \* most components of a path handed to should_ignore
MaxPatterns == 2    \* most patterns of a .gitignore

DOTDOT == <<46, 46>> (* ".." *)
N_x == <<120>> (* "x" *)

Patterns ==
    {[include |-> inc, star |-> FALSE, name |-> n] : inc \in BOOLEAN, n \in {N_x, N_a}}
    \cup {[include |-> inc, star |-> TRUE, name |-> <<>>] : inc \in BOOLEAN}

PatternSets == UNION {[1..n -> Patterns] : n \in 0..MaxPatterns}

FilterParts == UNION {[1..n -> {DOTDOT, N_x, N_a, N_proj}] : n \in 1..MaxDepth}

\* path.relative_to(self.root_dir): by components, ".." is not resolved;
\* raises ValueError when root_dir is not a prefix
IsRelativeTo(parts, root_dir) == IsPrefix(root_dir, parts)

RelativeTo(parts, root_dir) == SubSeq(parts, Len(root_dir) + 1, Len(parts))

\* the components of the string handed to match_file: str() of a path with no
\* component is ".", and a leading "./" is never there
MatchedParts(parts) == IF parts = <<>> THEN <<DOT>> ELSE parts

\* pattern.match_file(path_str)
PatternMatches(pattern, parts) ==
    IF pattern.star THEN parts # <<>>
    ELSE \E i \in 1..Len(parts) : parts[i] = pattern.name

\* PathSpec.match_file: the include of the last pattern that matches, False
\* when none does
RECURSIVE match_file(_, _)
match_file(spec, parts) ==
    IF spec = <<>> THEN FALSE
    ELSE IF PatternMatches(spec[Len(spec)], parts) THEN spec[Len(spec)].include
    ELSE match_file(SubSeq(spec, 1, Len(spec) - 1), parts)

should_ignore(flt, absolute, parts) ==
    IF ~flt.loaded THEN FALSE
    ELSE IF absolute
    THEN IF IsRelativeTo(parts, flt.root_dir)
         THEN match_file(flt.spec, MatchedParts(RelativeTo(parts, flt.root_dir)))
         ELSE FALSE
    ELSE match_file(flt.spec, MatchedParts(parts))

InitFilter ==
    /\ \E loaded \in BOOLEAN, spec \in PatternSets, absolute \in BOOLEAN, parts \in FilterParts :
          /\ ~loaded => spec = <<>>
          /\ filter_call = [root_dir |-> P_proj, loaded |-> loaded, spec |-> spec, absolute |-> absolute,
                            parts |-> parts, called |-> FALSE, result |-> FALSE]
    /\ FmtIdle
    /\ ScanIdle
    /\ SortIdle
    /\ ReadIdle
    /\ TokenIdle
    /\ MapIdle
    /\ LoadIdle
    /\ ThreadsIdle
    /\ CopyIdle
    /\ TreeIdle

CallShouldIgnore ==
    /\ ~filter_call.called
    /\ filter_call' = [filter_call EXCEPT
                          !.called = TRUE,
                          !.result = should_ignore(filter_call, filter_call.absolute,
                                                   filter_call.parts)]
    /\ UNCHANGED <<fmt_vars, scan_vars, sort_call, read_call, token_call, map_call, load_call, threads, copy_call, tree_items>>

NextFilter == CallShouldIgnore

SpecFilter == InitFilter /\ [][NextFilter]_vars

(***************************************************************************)
(* The calls that are given a list or a filter, made one after the other   *)
(* in any order: sort_items by name on a list of up to MaxGiven entries,   *)
(* generate_file_map and generate_full_output on a selection of up to      *)
(* MaxGiven paths, should_ignore on a filter of fewer than MaxGiven        *)
(* patterns and a path of up to MaxGiven parts.                            *)
(***************************************************************************)
MaxGiven == 2       \* most elements of a list given

InitGiven ==
    \/ InitSort /\ Len(sort_call.items) <= MaxGiven /\ sort_call.sort_by = "name"
    \/ InitFmt /\ Len(file_paths) <= MaxGiven
    \/ InitFilter /\ Len(filter_call.spec) < MaxGiven /\ Len(filter_call.parts) <= MaxGiven

NextGiven == CallSort \/ CallFileMap \/ CallFullOutput \/ CallShouldIgnore

SpecGiven == InitGiven /\ [][NextGiven]_vars

(***************************************************************************)
(* file_scanner.py: is_binary_file and read_text_file, called on one path  *)
(* of a disk that holds nothing else.  The path is missing, a directory,   *)
(* or a file, which the caller may or may not open, of up to MaxBytes      *)
(* bytes: NUL, LF, CR, "a", the bytes of a two-byte UTF-8 sequence, a byte *)
(* that starts a three-byte one, the bytes of the UTF-8 byte order mark    *)
(* and those of the UTF-16 ones.                                           *)
(***************************************************************************)
MaxBytes == 3       \* most bytes of a file read

N_i_PNG == <<105, 46, 80, 78, 71>> (* "i.PNG" *)
P_i_PNG == <<N_proj, N_i_PNG>>

ReadPaths == {P_a_h, P_i_PNG}

ByteValues == {0, 10, 13, 97, 195, 169, 233, 239, 187, 191, 255, 254}

ByteStrings == UNION {[1..n -> ByteValues] : n \in 0..MaxBytes}

ReadEntries ==
    {Missing, Dir} \cup {File(b) : b \in ByteStrings} \cup {Denied(b) : b \in ByteStrings}

InitRead ==
    /\ \E p \in ReadPaths, entry \in ReadEntries :
          /\ fs = [q \in {p} |-> entry]
          /\ read_call = [path |-> p, called |-> FALSE, binary |-> FALSE, result |-> [ok |-> FALSE]]
    /\ root_path = P_proj
    /\ file_paths = <<>>
    /\ file_cache = <<>>
    /\ call = NoCall
    /\ ScanIdle
    /\ SortIdle
    /\ FilterIdle
    /\ TokenIdle
    /\ MapIdle
    /\ LoadIdle
    /\ ThreadsIdle
    /\ CopyIdle
    /\ TreeIdle

CallRead ==
    /\ ~read_call.called
    /\ read_call' = [read_call EXCEPT
                        !.called = TRUE,
                        !.binary = is_binary_file(read_call.path),
                        !.result = read_text_file(read_call.path)]
    /\ UNCHANGED <<fmt_vars, scan_vars, sort_call, filter_call, token_call, map_call, load_call, threads, copy_call, tree_items>>

NextRead == CallRead

SpecRead == InitRead /\ [][NextRead]_vars

(***************************************************************************)
(* tokenizer.py: a Tokenizer is made for a model name, then count_tokens   *)
(* is called on a text.  The encoder is tiktoken's: what it makes of a     *)
(* text is an input here, either an exception (a text with a special token *)
(* that is not allowed, a value that is no string) or a cutting of the     *)
(* text into tokens, each a piece of one character or more.                *)
(***************************************************************************)
MaxCalls == 3       \* most calls made on one Tokenizer
MaxText == 3        \* most characters of a text counted

TOKENIZER_MODELS ==
    [name \in {"gpt-3.5-turbo", "gpt-3.5-turbo-16k", "gpt-4", "gpt-4-32k", "gpt-4-turbo",
               "text-embedding-ada-002"} |->
        [encoding |-> "cl100k_base",
         \* the most tokens, or none: None
         max_tokens |-> CASE name = "gpt-3.5-turbo" -> <<4096>>
                          [] name = "gpt-3.5-turbo-16k" -> <<16384>>
                          [] name = "gpt-4" -> <<8192>>
                          [] name = "gpt-4-32k" -> <<32768>>
                          [] name = "gpt-4-turbo" -> <<128000>>
                          [] name = "text-embedding-ada-002" -> <<>>]]

ModelNames == DOMAIN TOKENIZER_MODELS \cup {"llama"}

\* TokenizerModel with another default model
TokenizerModel_OtherDefault(model_name) ==
    IF model_name \notin DOMAIN TOKENIZER_MODELS THEN "gpt-4" ELSE model_name

\* Tokenizer.__init__: the model name kept
TokenizerModel(model_name) ==
    IF model_name \notin DOMAIN TOKENIZER_MODELS THEN "gpt-3.5-turbo" ELSE model_name

TextChars == {97, 32}       \* "a" and " "

Texts ==
    {[none |-> TRUE, chars |-> <<>>]}
        \cup {[none |-> FALSE, chars |-> c] : c \in UNION {[1..n -> TextChars] : n \in 0..MaxText}}

\* the cuttings of a text into pieces: the pieces between the places cut
RECURSIVE Pieces(_, _, _)
Pieces(chars, cuts, from) ==
    IF from > Len(chars) THEN <<>>
    ELSE LET to == IF \E c \in cuts : c >= from
                   THEN CHOOSE c \in cuts : c >= from /\ \A d \in cuts : d >= from => c <= d
                   ELSE Len(chars)
         IN  <<SubSeq(chars, from, to)>> \o Pieces(chars, cuts, to + 1)

\* what self.encoding.encode(text) may do
Encodings(chars) ==
    {[called |-> TRUE, raises |-> TRUE, tokens |-> <<>>]}
        \cup {[called |-> TRUE, raises |-> FALSE, tokens |-> Pieces(chars, cuts, 1)] :
                cuts \in SUBSET (1..(Len(chars) - 1))}

NotEncoded == [called |-> FALSE, raises |-> FALSE, tokens |-> <<>>]

Returned(value) == [raised |-> FALSE, value |-> value]
Raised == [raised |-> TRUE, value |-> 0]

\* count_tokens without its try
count_tokens_Uncaught(text, encoded) ==
    IF text.none \/ text.chars = <<>> THEN Returned(0)
    ELSE IF encoded.raises THEN Raised
    ELSE Returned(Len(encoded.tokens))

\* Tokenizer.count_tokens, with what the encoder makes of the text
count_tokens(text, encoded) ==
    IF text.none \/ text.chars = <<>> THEN Returned(0)
    ELSE IF encoded.raises THEN Returned(0)
    ELSE Returned(Len(encoded.tokens))

\* list(TOKENIZER_MODELS.keys()): the keys in the order of the table
get_available_models ==
    <<"gpt-3.5-turbo", "gpt-3.5-turbo-16k", "gpt-4", "gpt-4-32k", "gpt-4-turbo",
      "text-embedding-ada-002">>

\* the argument of get_model_max_tokens that stands for None
NoModel == "None"

\* Tokenizer.get_model_max_tokens of a Tokenizer of the model self_model_name:
\* the most tokens, or none (None) for a model without limit and for an
\* unknown model
get_model_max_tokens(self_model_name, model_name) ==
    LET name == IF model_name = NoModel THEN self_model_name ELSE model_name
    IN  IF name \notin DOMAIN TOKENIZER_MODELS THEN <<>>
        ELSE TOKENIZER_MODELS[name].max_tokens

InitTok ==
    /\ token_call = NoToken
    /\ fs = <<>>
    /\ root_path = P_proj
    /\ file_paths = <<>>
    /\ file_cache = <<>>
    /\ call = NoCall
    /\ ScanIdle
    /\ SortIdle
    /\ FilterIdle
    /\ ReadIdle
    /\ MapIdle
    /\ LoadIdle
    /\ ThreadsIdle
    /\ CopyIdle
    /\ TreeIdle

\* Tokenizer(model_name): tiktoken.get_encoding gives the encoding or raises
NewTokenizer ==
    /\ ~token_call.made
    /\ ~token_call.failed
    /\ \E model_name \in ModelNames, loads \in BOOLEAN :
          token_call' = [token_call EXCEPT
                            !.argument = model_name,
                            !.model_name = TokenizerModel(model_name),
                            !.made = loads,
                            !.failed = ~loads,
                            !.encoding = IF loads
                                         THEN TOKENIZER_MODELS[TokenizerModel(model_name)].encoding
                                         ELSE ""]
    /\ UNCHANGED <<fmt_vars, scan_vars, sort_call, filter_call, read_call, map_call, load_call, threads, copy_call, tree_items>>

\* tokenizer.count_tokens(text)
CountTokens ==
    /\ token_call.made
    /\ token_call.calls < MaxCalls
    /\ \E text \in Texts :
       \E encoded \in IF text.none \/ text.chars = <<>> THEN {NotEncoded}
                      ELSE Encodings(text.chars) :
          token_call' = [token_call EXCEPT
                            !.calls = @ + 1,
                            !.called = TRUE,
                            !.text = text,
                            !.encoded = encoded,
                            !.outcome = count_tokens(text, encoded)]
    /\ UNCHANGED <<fmt_vars, scan_vars, sort_call, filter_call, read_call, map_call, load_call, threads, copy_call, tree_items>>

\* tokenizer.get_available_models()
GetAvailableModels ==
    /\ token_call.made
    /\ token_call.calls < MaxCalls
    /\ token_call' = [token_call EXCEPT !.calls = @ + 1, !.models = get_available_models]
    /\ UNCHANGED <<fmt_vars, scan_vars, sort_call, filter_call, read_call, map_call, load_call, threads, copy_call, tree_items>>

\* tokenizer.get_model_max_tokens(model_name)
GetModelMaxTokens ==
    /\ token_call.made
    /\ token_call.calls < MaxCalls
    /\ \E model_name \in ModelNames \cup {NoModel} :
          token_call' = [token_call EXCEPT
                            !.calls = @ + 1,
                            !.asked = model_name,
                            !.max_tokens = get_model_max_tokens(token_call.model_name,
                                                                model_name)]
    /\ UNCHANGED <<fmt_vars, scan_vars, sort_call, filter_call, read_call, map_call, load_call, threads, copy_call, tree_items>>

NextTok == NewTokenizer \/ CountTokens \/ GetAvailableModels \/ GetModelMaxTokens

SpecTok == InitTok /\ [][NextTok]_vars

(***************************************************************************)
(* output_formatter.py: generate_file_map called on a list of items of its *)
(* caller's making: up to MaxMapItems items, each with a rel_path among a, *)
(* a/x.py and a-b and with is_dir true or false, in any order, the same    *)
(* rel_path more than once too (a file outside the root is given the       *)
(* rel_path of its name).                                                  *)
(***************************************************************************)
MaxMapItems == 3    \* most items of a list given to generate_file_map

MapItems == {[rel_path |-> r, is_dir |-> d] : r \in {<<N_a>>, <<N_a, N_x_py>>, <<N_a_b>>},
                                             d \in BOOLEAN}

InitMap ==
    /\ \E items \in UNION {[1..n -> MapItems] : n \in 0..MaxMapItems} :
          map_call = [items |-> items, root |-> P_proj, called |-> FALSE,
                      lines |-> <<>>, result |-> <<>>]
    /\ FmtIdle
    /\ ScanIdle
    /\ SortIdle
    /\ FilterIdle
    /\ ReadIdle
    /\ TokenIdle
    /\ LoadIdle
    /\ ThreadsIdle
    /\ CopyIdle
    /\ TreeIdle

\* generate_file_map(items, root_path)
CallGenerateFileMap ==
    /\ ~map_call.called
    /\ map_call' = [map_call EXCEPT
                       !.called = TRUE,
                       !.lines = FileMapLines(map_call.items, map_call.root),
                       !.result = generate_file_map(map_call.items, map_call.root)]
    /\ UNCHANGED <<fmt_vars, scan_vars, sort_call, filter_call, read_call, token_call, load_call, threads, copy_call, tree_items>>

NextMap == CallGenerateFileMap

SpecMap == InitMap /\ [][NextMap]_vars

(***************************************************************************)
(* controllers.py: FileTreeController.load_folder on the folder /proj.     *)
(* The folder holds plain files and directories with the names of virtual  *)
(* environments and others, and a .gitignore or none; nothing in it        *)
(* refuses to be inspected.                                                *)
(***************************************************************************)
N_venv == <<118, 101, 110, 118>> (* "venv" *)
N_venv_3 == <<118, 101, 110, 118, 45, 51>> (* "venv-3" *)
N_env == <<101, 110, 118>> (* "env" *)
N_dot_venv == <<46, 118, 101, 110, 118>> (* ".venv" *)
N_virtualenv == <<118, 105, 114, 116, 117, 97, 108, 101, 110, 118>> (* "virtualenv" *)
N_dot_gitignore == <<46, 103, 105, 116, 105, 103, 110, 111, 114, 101>> (* ".gitignore" *)

\* the paths the folder may hold, relative to it
LoadPaths ==
    {<<N_venv>>, <<N_venv, N_x>>, <<N_venv_3>>, <<N_dot_venv>>, <<N_a>>, <<N_a, N_x>>,
     <<N_a, N_env>>, <<N_x>>, <<N_dot_gitignore>>}

\* the folders: what each path is, files only below directories
LoadDisks ==
    {d \in [LoadPaths -> {"absent", "dir", "file"}] :
        /\ d[<<N_venv, N_x>>] # "absent" => d[<<N_venv>>] = "dir"
        /\ d[<<N_a, N_x>>] # "absent" => d[<<N_a>>] = "dir"
        /\ d[<<N_a, N_env>>] # "absent" => d[<<N_a>>] = "dir"
        /\ d[<<N_venv, N_x>>] # "dir" /\ d[<<N_a, N_x>>] # "dir" /\ d[<<N_a, N_env>>] # "dir"
        /\ d[<<N_x>>] # "dir" /\ d[<<N_venv_3>>] # "dir" /\ d[<<N_dot_venv>>] # "file"
        /\ d[<<N_dot_gitignore>>] # "dir"}

\* current_path.iterdir(): the names in the directory, here in name order
LoadChildren(folder, dir) ==
    SortedNames({p[Len(p)] : p \in {q \in LoadPaths : /\ Len(q) = Len(dir) + 1
                                                      /\ IsPrefix(dir, q)
                                                      /\ folder[q] # "absent"}})

\* _scan_directory_recursive on a folder of plain files and directories: the
\* items appended for the names of `todo` in the directory dir
RECURSIVE ScanNames(_, _, _, _)
ScanNames(folder, dir, todo, hidden_too) ==
    IF todo = <<>> THEN <<>>
    ELSE LET path == Append(dir, todo[1])
             rest == ScanNames(folder, dir, Tail(todo), hidden_too)
         IN  IF is_hidden(path) /\ ~hidden_too THEN rest
             ELSE <<ScanItem(path, folder[path] = "dir", FALSE, is_hidden(path))>>
                  \o (IF folder[path] = "dir"
                      THEN ScanNames(folder, path, LoadChildren(folder, path), hidden_too)
                      ELSE <<>>)
                  \o rest

\* scan_directory(folder_path, follow_symlinks=False, hidden_too=...)
ScannedFolder(folder, hidden_too) ==
    <<RootItem>> \o ScanNames(folder, <<>>, LoadChildren(folder, <<>>), hidden_too)

\* GitignoreFilter(folder_path): the patterns of the folder's .gitignore
NewGitignoreFilter(gitignore) ==
    [root_dir |-> P_proj, loaded |-> gitignore.exists,
     spec |-> IF gitignore.exists THEN gitignore.spec ELSE <<>>]

\* the items left by the loop over the filter's should_ignore
RECURSIVE GitignoreFiltered(_, _)
GitignoreFiltered(items, flt) ==
    IF items = <<>> THEN <<>>
    ELSE LET rest == GitignoreFiltered(Tail(items), flt)
         IN  IF items[1].path = P_proj THEN <<items[1]>> \o rest
             ELSE IF should_ignore(flt, TRUE, items[1].path) THEN rest
             ELSE <<items[1]>> \o rest

\* IsVenvPart without the names that start with "venv-"
IsVenvPart_NamesOnly(part) == part \in {N_venv, N_virtualenv, N_env, N_dot_venv}

\* part in ['venv', 'virtualenv', 'env', '.venv'] or part.startswith('venv-')
IsVenvPart(part) ==
    \/ part \in {N_venv, N_virtualenv, N_env, N_dot_venv}
    \/ Len(part) >= 5 /\ SubSeq(part, 1, 5) = <<118, 101, 110, 118, 45>> (* "venv-" *)

\* the items left by the loop over the parts of rel_path
RECURSIVE VenvFiltered(_)
VenvFiltered(items) ==
    IF items = <<>> THEN <<>>
    ELSE LET rest == VenvFiltered(Tail(items))
             parts == items[1].rel_path
         IN  IF items[1].path = P_proj THEN <<items[1]>> \o rest
             ELSE IF \E i \in 1..Len(parts) : IsVenvPart(parts[i]) THEN rest
             ELSE <<items[1]>> \o rest

\* the key of _populate_tree_view: (not x['is_dir'], x['path'].name.lower())
TreeKeyLess(item, other) ==
    IF item.is_dir # other.is_dir THEN item.is_dir
    ELSE StrLess(Lower(item.path[Len(item.path)]), Lower(other.path[Len(other.path)]))

\* items.sort(key=...) of _populate_tree_view, stable: an item goes after
\* every item placed before it whose key is not greater than its own
RECURSIVE InsertByTreeKey(_, _)
InsertByTreeKey(placed, item) ==
    IF placed = <<>> THEN <<item>>
    ELSE IF TreeKeyLess(item, placed[1]) THEN <<item>> \o placed
    ELSE <<placed[1]>> \o InsertByTreeKey(Tail(placed), item)

RECURSIVE SortedByTreeKey(_)
SortedByTreeKey(items) ==
    IF items = <<>> THEN <<>>
    ELSE InsertByTreeKey(SortedByTreeKey(SubSeq(items, 1, Len(items) - 1)),
                         items[Len(items)])

\* self.gitignore_filter after the filter has been made: None (a filter that
\* is not loaded) when the rules are not applied or no .gitignore was loaded
LoadedFilter(gitignore, apply_gitignore_rules) ==
    IF apply_gitignore_rules /\ gitignore.exists THEN NewGitignoreFilter(gitignore)
    ELSE [root_dir |-> P_proj, loaded |-> FALSE, spec |-> <<>>]

\* the list load_folder emits and returns
load_folder(folder, gitignore, show_hidden, apply_gitignore_rules) ==
    LET flt == LoadedFilter(gitignore, apply_gitignore_rules)
        scanned == ScannedFolder(folder, show_hidden)
        kept == IF flt.loaded THEN GitignoreFiltered(scanned, flt) ELSE scanned
    IN  SortedByTreeKey(sort_items(VenvFiltered(kept), "name", FALSE))

InitLoad ==
    /\ \E folder \in LoadDisks, spec \in PatternSets, show \in BOOLEAN, apply \in BOOLEAN :
          /\ folder[<<N_dot_gitignore>>] = "absent" => spec = <<>>
          /\ load_call = [NoLoad EXCEPT
                             !.folder = folder,
                             !.gitignore = [exists |-> folder[<<N_dot_gitignore>>] = "file",
                                            spec |-> spec],
                             !.show_hidden = show,
                             !.apply_gitignore_rules = apply]
    /\ FmtIdle
    /\ ScanIdle
    /\ SortIdle
    /\ FilterIdle
    /\ ReadIdle
    /\ TokenIdle
    /\ MapIdle
    /\ ThreadsIdle
    /\ CopyIdle
    /\ TreeIdle

\* controller.load_folder("/proj")
LoadFolder ==
    /\ ~load_call.called
    /\ load_call' = [load_call EXCEPT
                        !.called = TRUE,
                        !.gitignore_filter = LoadedFilter(load_call.gitignore,
                                                          load_call.apply_gitignore_rules),
                        !.items = load_folder(load_call.folder, load_call.gitignore,
                                              load_call.show_hidden,
                                              load_call.apply_gitignore_rules)]
    /\ UNCHANGED <<fmt_vars, scan_vars, sort_call, filter_call, read_call, token_call, map_call, threads, copy_call, tree_items>>

NextLoad == LoadFolder

SpecLoad == InitLoad /\ [][NextLoad]_vars

(***************************************************************************)
(* main_window.py: the token workers (TokenizerThread, the same class as   *)
(* in token_controller.py) and the main thread.  A worker runs in a thread *)
(* of its own; the window lives in the main thread, so every signal a      *)
(* worker emits is posted as an event to the main thread, which handles    *)
(* the events one after the other when it is in its event loop.  One       *)
(* worker is started per folder loaded; the folder shown first counts as   *)
(* load 0.  The files are as on the usual disk, a-b with a NUL byte.       *)
(***************************************************************************)
MaxFiles == 2       \* most files given to a worker
MaxLoads == 1       \* most calls of _load_folder after the first folder

WorkerPaths == {P_a_h, P_a_b, P_sub_M_RS}

WorkerFiles ==
    UNION {{f \in [1..n -> WorkerPaths] : \A i, j \in 1..n : f[i] = f[j] => i = j}
           : n \in 1..MaxFiles}

\* TokenizerThread(files, tokenizer), started: before the loop's first test
NewWorker(files, loads) ==
    [files |-> files, i |-> 0, pc |-> "check", stopped |-> FALSE, load |-> loads,
     stop_at |-> 0, stop_busy |-> FALSE]

\* token_thread.isRunning()
IsRunning(worker) == worker.pc # "done"

\* the event of a signal emitted by worker w
Event(signal, w, path, count) == [signal |-> signal, worker |-> w, path |-> path, count |-> count]

\* the loop's test of self.stopped, never seeing the request
SeesStop_Never(worker) == FALSE

\* if self.stopped: break
SeesStop(worker) == worker.stopped

\* the counts a file may get: 0 for a binary file and for one that cannot be
\* read, else what count_tokens makes of the text
TokenCounts(path) ==
    IF is_binary_file(path) THEN {0}
    ELSE IF ~read_text_file(path).ok THEN {0}
    ELSE LET text == [none |-> FALSE, chars |-> read_text_file(path).text]
         IN  {count_tokens(text, encoded).value :
                 encoded \in IF text.chars = <<>> THEN {NotEncoded} ELSE Encodings(text.chars)}

InitThreads ==
    /\ threads = NoThreads
    /\ root_path = P_proj
    /\ file_paths = <<>>
    /\ file_cache = <<>>
    /\ fs = Disk({P_a_b})
    /\ call = NoCall
    /\ ScanIdle
    /\ SortIdle
    /\ FilterIdle
    /\ ReadIdle
    /\ TokenIdle
    /\ MapIdle
    /\ LoadIdle
    /\ CopyIdle
    /\ TreeIdle

OtherThanThreads ==
    <<fmt_vars, scan_vars, sort_call, filter_call, read_call, token_call, map_call, load_call, copy_call, tree_items>>

\* _start_token_calculation(files): a worker is made and started
StartCalculation ==
    /\ threads.main = "loop"
    /\ Len(threads.workers) <= threads.loads
    /\ \E files \in WorkerFiles :
          threads' = [threads EXCEPT !.workers = Append(@, NewWorker(files, threads.loads))]
    /\ UNCHANGED OtherThanThreads

\* run, at the head of the loop: the loop ends when the files are through or
\* the stop request is seen, and calculation_finished is emitted; else
\* the next file is taken
WorkerCheck(w) ==
    /\ w \in 1..Len(threads.workers)
    /\ threads.workers[w].pc = "check"
    /\ LET worker == threads.workers[w]
       IN  IF worker.i = Len(worker.files) \/ SeesStop(worker)
           THEN threads' = [threads EXCEPT
                               !.workers[w].pc = "done",
                               !.queue = Append(@, Event("calculation_finished", w, <<>>, 0))]
           ELSE threads' = [threads EXCEPT !.workers[w].pc = "progress"]
    /\ UNCHANGED OtherThanThreads

\* run: self.progress_updated.emit(i + 1, total_files)
WorkerProgress(w) ==
    /\ w \in 1..Len(threads.workers)
    /\ threads.workers[w].pc = "progress"
    /\ threads' = [threads EXCEPT
                      !.workers[w].pc = "calculate",
                      !.queue = Append(@, Event("progress_updated", w, <<>>,
                                                threads.workers[w].i + 1))]
    /\ UNCHANGED OtherThanThreads

\* run: the file is tested, read and counted, and token_calculated is emitted
WorkerCalculate(w) ==
    /\ w \in 1..Len(threads.workers)
    /\ threads.workers[w].pc = "calculate"
    /\ LET worker == threads.workers[w]
           path == worker.files[worker.i + 1]
       IN  \E count \in TokenCounts(path) :
              threads' = [threads EXCEPT
                             !.workers[w].pc = "check",
                             !.workers[w].i = @ + 1,
                             !.queue = Append(@, Event("token_calculated", w, path, count))]
    /\ UNCHANGED OtherThanThreads

WorkerStep(w) == WorkerCheck(w) \/ WorkerProgress(w) \/ WorkerCalculate(w)

\* the request of stop() as the worker meets it: how many files it has
\* done, and whether it is past the loop's test for the next one
Stopped(worker) ==
    [worker EXCEPT !.stopped = TRUE, !.stop_at = worker.i,
                   !.stop_busy = worker.pc \in {"progress", "calculate"}]

\* _load_folder up to wait(), with a worker running: stop() is called, and
\* the main thread waits for the worker's run to end
LoadFolderStop ==
    /\ threads.main = "loop"
    /\ threads.loads < MaxLoads
    /\ threads.workers # <<>>
    /\ IsRunning(threads.workers[Len(threads.workers)])
    /\ threads' = [threads EXCEPT
                      !.workers[Len(threads.workers)] = Stopped(@),
                      !.main = "wait"]
    /\ UNCHANGED OtherThanThreads

\* _load_folder from the return of wait(): token_cache is cleared and the
\* folder loaded
LoadFolderWaited ==
    /\ threads.main = "wait"
    /\ ~IsRunning(threads.workers[Len(threads.workers)])
    /\ threads' = [threads EXCEPT
                      !.token_cache = <<>>,
                      !.loads = @ + 1,
                      !.main = "loop"]
    /\ UNCHANGED OtherThanThreads

\* _load_folder with no worker running
LoadFolderIdle ==
    /\ threads.main = "loop"
    /\ threads.loads < MaxLoads
    /\ threads.workers # <<>> => ~IsRunning(threads.workers[Len(threads.workers)])
    /\ threads' = [threads EXCEPT !.token_cache = <<>>, !.loads = @ + 1]
    /\ UNCHANGED OtherThanThreads

\* the dict with the entry of the key set
DictSet(dict, key, value) ==
    [k \in DOMAIN dict \cup {key} |-> IF k = key THEN value ELSE dict[k]]

\* the main thread takes the next event from its queue and runs the slot
\* connected to the signal: _on_token_calculated writes the count into
\* token_cache (here with the worker it comes from); the other slots show
\* the progress only
HandleEvent ==
    /\ threads.main = "loop"
    /\ threads.queue # <<>>
    /\ LET event == Head(threads.queue)
       IN  threads' = [threads EXCEPT
                          !.queue = Tail(@),
                          !.token_cache =
                              IF event.signal = "token_calculated"
                              THEN DictSet(@, event.path,
                                           [count |-> event.count, worker |-> event.worker])
                              ELSE @]
    /\ UNCHANGED OtherThanThreads

NextThreads ==
    \/ StartCalculation
    \/ \E w \in 1..(MaxLoads + 1) : WorkerStep(w)
    \/ LoadFolderStop
    \/ LoadFolderWaited
    \/ LoadFolderIdle
    \/ HandleEvent

SpecThreads == InitThreads /\ [][NextThreads]_vars


\* closeEvent up to wait(), with a worker running: stop() is called and the
\* main thread waits for the worker's run to end (the two calls that
\* TokenController._start_token_calculation makes as well)
CloseEventStop ==
    /\ threads.main = "loop"
    /\ threads.workers # <<>>
    /\ IsRunning(threads.workers[Len(threads.workers)])
    /\ threads' = [threads EXCEPT
                      !.workers[Len(threads.workers)] = Stopped(@),
                      !.main = "wait"]
    /\ UNCHANGED OtherThanThreads

\* closeEvent from the return of wait(): the event is accepted and the
\* window closed
CloseEventWaited ==
    /\ threads.main = "wait"
    /\ ~IsRunning(threads.workers[Len(threads.workers)])
    /\ threads' = [threads EXCEPT !.main = "closed"]
    /\ UNCHANGED OtherThanThreads

\* closeEvent with no worker running
CloseEventIdle ==
    /\ threads.main = "loop"
    /\ threads.workers # <<>> => ~IsRunning(threads.workers[Len(threads.workers)])
    /\ threads' = [threads EXCEPT !.main = "closed"]
    /\ UNCHANGED OtherThanThreads

\* one worker from its start to the end of its run, and the window closed
\* at any time
NextWorker ==
    \/ StartCalculation
    \/ WorkerStep(1)
    \/ CloseEventStop
    \/ CloseEventWaited
    \/ CloseEventIdle
    \/ HandleEvent

\* the worker's thread is given time to run
SpecWorker == InitThreads /\ [][NextWorker]_vars /\ WF_vars(WorkerStep(1))

(***************************************************************************)
(* action_controller.py: ActionController.perform_copy_to_clipboard, with  *)
(* the root /proj and a selection of paths of the usual disk.              *)
(***************************************************************************)
MaxSelected == 2    \* most paths in selected_item_details

SelectedItemDetails == {s \in Selections : Len(s) <= MaxSelected}

\* def generate_full_output(root_path, file_paths, file_cache, indent_size)
GENERATE_FULL_OUTPUT_PARAMETERS == {"root_path", "file_paths", "file_cache", "indent_size"}

\* a call binds its keyword arguments to parameters of the function, or
\* raises TypeError
Binds(keywords, parameters) == keywords \subseteq parameters

\* the text files of the selection: path.is_file() and not is_binary_file(path)
TextFiles(selected) == SelectSeq(selected, LAMBDA p : IsFile(p) /\ ~is_binary_file(p))

\* the loop over text_files up to file number n: the items appended, the
\* statuses emitted, and whether relative_to has raised ValueError
RECURSIVE ItemsDetails(_, _, _, _)
ItemsDetails(text_files, root, tree_only, n) ==
    IF n = 0 THEN [items |-> <<>>, emitted |-> <<>>, raised |-> FALSE]
    ELSE LET before == ItemsDetails(text_files, root, tree_only, n - 1)
             file_path == text_files[n]
         IN  IF before.raised THEN before
             ELSE IF ~tree_only /\ ~read_text_file(file_path).ok
             THEN [before EXCEPT !.emitted = Append(@, FALSE)]
             ELSE IF ~IsRelativeTo(file_path, root)
             THEN [before EXCEPT !.raised = TRUE]
             ELSE [before EXCEPT !.items = Append(@, file_path)]

\* perform_copy_to_clipboard: the value returned, the statuses emitted on
\* copy_status_signal (True for success), and the texts written to the
\* clipboard; clipboard_ok is whether copy_to_clipboard succeeds
perform_copy_to_clipboard(root, selected, tree_only, clipboard_ok) ==
    LET text_files == TextFiles(selected)
        details == ItemsDetails(text_files, root, tree_only, Len(text_files))
        failed(emitted) == [result |-> FALSE, emitted |-> Append(emitted, FALSE), written |-> <<>>]
    IN  IF text_files = <<>> THEN failed(<<>>)
        ELSE IF details.raised THEN failed(details.emitted)
        ELSE IF details.items = <<>> THEN failed(details.emitted)
        ELSE IF ~Binds({"copy_file_tree_only"}, GENERATE_FULL_OUTPUT_PARAMETERS)
        THEN failed(details.emitted)      \* TypeError, caught by except Exception
        ELSE IF clipboard_ok
        THEN [result |-> TRUE, emitted |-> Append(details.emitted, TRUE),
              written |-> <<generate_full_output(root, details.items, <<>>)>>]
        ELSE failed(details.emitted)

InitCopy ==
    /\ \E selected \in SelectedItemDetails :
          /\ copy_call = [called |-> FALSE, selected |-> selected,
                          copy_file_tree_only |-> FALSE, clipboard_ok |-> FALSE]
          /\ \E other \in SUBSET Range(selected) : fs = Disk(other)
    /\ root_path = P_proj
    /\ file_paths = <<>>
    /\ file_cache = <<>>
    /\ call = NoCall
    /\ ScanIdle
    /\ SortIdle
    /\ FilterIdle
    /\ ReadIdle
    /\ TokenIdle
    /\ MapIdle
    /\ LoadIdle
    /\ ThreadsIdle
    /\ TreeIdle

\* the user presses the copy button; the setting and the clipboard's state
\* are what they are at that time
PerformCopy ==
    /\ ~copy_call.called
    /\ \E tree_only \in BOOLEAN, clipboard_ok \in BOOLEAN :
          LET done == perform_copy_to_clipboard(root_path, copy_call.selected,
                                                tree_only, clipboard_ok)
          IN  copy_call' = [copy_call EXCEPT
                               !.called = TRUE,
                               !.copy_file_tree_only = tree_only,
                               !.clipboard_ok = clipboard_ok] @@
                           [result |-> done.result, emitted |-> done.emitted,
                            written |-> done.written]
    /\ UNCHANGED <<fmt_vars, scan_vars, sort_call, filter_call, read_call, token_call, map_call, load_call, threads, tree_items>>

NextCopy == PerformCopy

SpecCopy == InitCopy /\ [][NextCopy]_vars

(***************************************************************************)
(* controllers.py: FileTreeController.handle_item_change on the tree of    *)
(* the folder /proj of the usual disk: the root item proj with a (holding  *)
(* x.py), a-b, a.h and sub (holding M.RS).  Every item is checkable and    *)
(* enabled, and its metadata holds its path.                               *)
(***************************************************************************)
TreeItems == {P_proj, P_a, P_a_x_py, P_a_b, P_a_h, P_sub, P_sub_M_RS}

\* item.child(row) for the rows of the item
ChildItems(item) == {c \in TreeItems : c # P_proj /\ Parent(c) = item}

\* the items below the item, at any depth
DescendantItems(item) == {c \in TreeItems : IsStrictPrefix(item, c)}

\* item.parent() is None for the top item
HasParentItem(item) == item # P_proj

\* _set_item_checked_state(item, checked) for each child of `item`: every
\* item below gets the target state, and one whose state changes is added to
\* or discarded from checked_items
SetChildrenChecked(t, item, checked) ==
    LET target == IF checked THEN "Checked" ELSE "Unchecked"
        changed == {c \in DescendantItems(item) : t.state[c] # target}
    IN  [t EXCEPT
            !.state = [c \in TreeItems |-> IF c \in DescendantItems(item) THEN target ELSE @[c]],
            !.checked_items = IF checked THEN @ \cup changed ELSE @ \ changed]

\* the state _update_parent_checked_state gives a parent: from the states of
\* its children
ParentState(t, parent) ==
    LET all_checked == \A c \in ChildItems(parent) : t.state[c] = "Checked"
        any_checked == \E c \in ChildItems(parent) : t.state[c] = "Checked"
    IN  IF all_checked THEN "Checked"
        ELSE IF any_checked THEN "PartiallyChecked" ELSE "Unchecked"

\* _update_parent_checked_state(item): upwards as long as a state changes
RECURSIVE UpdateParentCheckedState(_, _)
UpdateParentCheckedState(t, item) ==
    IF ~HasParentItem(item) THEN t
    ELSE LET parent == Parent(item)
             new_state == ParentState(t, parent)
         IN  IF ChildItems(parent) = {} \/ t.state[parent] = new_state THEN t
             ELSE UpdateParentCheckedState(
                      [t EXCEPT
                          !.state[parent] = new_state,
                          !.checked_items = IF new_state = "Checked" THEN @ \cup {parent}
                                            ELSE @ \ {parent}],
                      parent)

\* handle_item_change(item), the item's state already changed by the click
handle_item_change(t, item) ==
    LET checked == t.state[item] = "Checked"
        updated == [t EXCEPT !.checked_items = IF checked THEN @ \cup {item} ELSE @ \ {item}]
        is_dir == IF Exists(item) THEN IsDir(item) ELSE FALSE
    IN  IF ~is_dir THEN updated
        ELSE UpdateParentCheckedState(SetChildrenChecked(updated, item, checked), item)

\* the state a click gives an item: unchecked if it was checked, else checked
Clicked(state) == IF state = "Checked" THEN "Unchecked" ELSE "Checked"

\* load_folder has shown the folder: nothing is checked
InitTree ==
    /\ tree_items = [state |-> [c \in TreeItems |-> "Unchecked"], checked_items |-> {},
                     changed |-> <<>>]
    /\ FmtIdle
    /\ ScanIdle
    /\ SortIdle
    /\ FilterIdle
    /\ ReadIdle
    /\ TokenIdle
    /\ MapIdle
    /\ LoadIdle
    /\ ThreadsIdle
    /\ CopyIdle

\* the user clicks the check box of an item: the model changes the item's
\* state and emits itemChanged, which runs handle_item_change; `changed` is
\* the item of the last event
ItemChanged ==
    /\ tree_items # NoTree
    /\ \E item \in TreeItems :
          tree_items' = handle_item_change(
                            [tree_items EXCEPT !.state[item] = Clicked(@), !.changed = item],
                            item)
    /\ UNCHANGED <<fmt_vars, scan_vars, sort_call, filter_call, read_call, token_call, map_call, load_call, threads, copy_call>>

NextTree == ItemChanged

SpecTree == InitTree /\ [][NextTree]_vars

(***************************************************************************)
(* Reading the generated document back: what the properties below say is   *)
(* said of the text a call returned.                                       *)
(***************************************************************************)
StartsWith(s, pre) == Len(s) >= Len(pre) /\ SubSeq(s, 1, Len(pre)) = pre
EndsWith(s, suf) == Len(s) >= Len(suf) /\ SubSeq(s, Len(s) - Len(suf) + 1, Len(s)) = suf

MapOpen == <<60, 102, 105, 108, 101, 95, 109, 97, 112, 62>> (* "<file_map>" *)
MapClose == <<60, 47, 102, 105, 108, 101, 95, 109, 97, 112, 62>> (* "</file_map>" *)
ContentsOpen == <<60, 102, 105, 108, 101, 95, 99, 111, 110, 116, 101, 110, 116, 115, 62>> (* "<file_contents>" *)
ContentsClose == <<60, 47, 102, 105, 108, 101, 95, 99, 111, 110, 116, 101, 110, 116, 115, 62>> (* "</file_contents>" *)
FilePrefix == <<70, 105, 108, 101, 58, 32>> (* "File: " *)
Fence == <<96, 96, 96>> (* "```" *)
ErrorPrefix == <<47, 47, 32, 69, 114, 114, 111, 114, 58, 32>> (* "// Error: " *)
BoxMid == <<9500, 9472, 9472, 32>> (* "\u251c\u2500\u2500 " *)
BoxLast == <<9492, 9472, 9472, 32>> (* "\u2514\u2500\u2500 " *)
BoxPipe == <<9474, 32, 32, 32>> (* "\u2502   " *)
BoxBlank == <<32, 32, 32, 32>> (* "    " *)

\* the number of leading indentation units of a map line
RECURSIVE LeadUnits(_, _)
LeadUnits(line, k) ==
    IF Len(line) >= 4 * (k + 1) /\ SubSeq(line, 4 * k + 1, 4 * k + 4) \in {BoxPipe, BoxBlank}
    THEN LeadUnits(line, k + 1)
    ELSE k

\* a map line read as indentation units, a connector and a label
MapLine(line) ==
    LET k == LeadUnits(line, 0)
        conn == IF Len(line) >= 4 * k + 4 THEN SubSeq(line, 4 * k + 1, 4 * k + 4) ELSE <<>>
        label == IF Len(line) >= 4 * k + 4 THEN SubSeq(line, 4 * k + 5, Len(line)) ELSE <<>>
        dir == EndsWith(label, SLASH)
    IN  [entry |-> conn \in {BoxMid, BoxLast} /\ label # <<>>,
         depth |-> k + 1,
         units |-> [u \in 1..k |-> SubSeq(line, 4 * u - 3, 4 * u)],
         conn |-> conn,
         dir |-> dir,
         name |-> IF dir THEN SubSeq(label, 1, Len(label) - 1) ELSE label]

\* the lines of a map between the root line and the closing marker
MapBody(lines) == IF Len(lines) >= 3 THEN SubSeq(lines, 3, Len(lines) - 1) ELSE <<>>

\* the entries of a map body, each with the path its indentation gives it:
\* the entry at depth d lies below the last entry before it at depth d - 1
RECURSIVE MapEntries(_, _)
MapEntries(body, stack) ==
    IF body = <<>> THEN <<>>
    ELSE LET e == MapLine(body[1])
         IN  IF ~e.entry \/ e.depth > Len(stack) + 1
             THEN <<[e EXCEPT !.entry = FALSE] @@ [path |-> <<>>]>>
                  \o MapEntries(Tail(body), stack)
             ELSE LET path == Append(SubSeq(stack, 1, e.depth - 1), e.name)
                  IN  <<e @@ [path |-> path]>> \o MapEntries(Tail(body), path)

\* the entries of the map whose lines are `lines`
EntriesOf(lines) == MapEntries(MapBody(lines), <<>>)

\* the non-empty prefixes of the selected items' rel_paths
SelectedPrefixes ==
    UNION {{SubSeq(RelPath(file_paths[i], root_path), 1, n) :
               n \in 1..Len(RelPath(file_paths[i], root_path))} :
           i \in 1..Len(file_paths)}

\* the blocks of the list `contents`: a "File: " entry, a fence entry with the
\* tag, the content, the closing fence and the empty entry
RECURSIVE BlocksFrom(_, _)
BlocksFrom(contents, i) ==
    IF i + 4 > Len(contents) THEN <<>>
    ELSE IF /\ StartsWith(contents[i], FilePrefix)
            /\ StartsWith(contents[i + 1], Fence)
            /\ contents[i + 3] = Fence
            /\ contents[i + 4] = <<>>
    THEN <<[file |-> SubSeq(contents[i], Len(FilePrefix) + 1, Len(contents[i])),
            tag |-> SubSeq(contents[i + 1], Len(Fence) + 1, Len(contents[i + 1])),
            content |-> contents[i + 2]]>>
         \o BlocksFrom(contents, i + 5)
    ELSE <<>>

BlocksOf(contents) == BlocksFrom(contents, 2)

\* the list is the two markers with blocks and nothing else between
ContentsWellFormed(contents) ==
    /\ Len(contents) = 5 * Len(BlocksOf(contents)) + 2
    /\ contents[1] = ContentsOpen
    /\ contents[Len(contents)] = ContentsClose

SelectedFiles == {i \in 1..Len(file_paths) : ~IsDir(file_paths[i])}
SelectedDirs == {i \in 1..Len(file_paths) : IsDir(file_paths[i])}
SelRel(i) == RelPath(file_paths[i], root_path)

\* the blocks whose "File: " line names the i-th selected path
BlocksFor(blocks, i) ==
    {b \in 1..Len(blocks) : blocks[b].file = RelPathStr(SelRel(i))}

FullReturned == call.op = "generate_full_output" /\ call.status = "returned"
MapReturned == call.op = "generate_file_map" /\ call.status = "returned"

(***************************************************************************)
(* C1: for any root and any selection mixing files and directories,        *)
(* generate_full_output returns the file_map section, one blank line and   *)
(* the file_contents section; the map is the map of every selected item,   *)
(* so each selected directory has its line in it, and the contents section *)
(* has one block per selected non-directory item and none for a directory. *)
(***************************************************************************)
C1_FullOutputLayout ==
    FullReturned =>
        LET entries == EntriesOf(call.lines)
            blocks == BlocksOf(call.contents)
            paths == {entries[e].path : e \in {x \in 1..Len(entries) : entries[x].entry}}
            dirs == {entries[e].path :
                        e \in {x \in 1..Len(entries) : entries[x].entry /\ entries[x].dir}}
        IN  /\ call.result = Join(call.lines, NL) \o NL \o NL \o Join(call.contents, NL)
            /\ call.lines[1] = MapOpen
            /\ call.lines[Len(call.lines)] = MapClose
            /\ ContentsWellFormed(call.contents)
            /\ \A i \in SelectedDirs : SelRel(i) = <<>> \/ SelRel(i) \in dirs
            /\ \A i \in SelectedFiles : SelRel(i) \in paths
            /\ Len(blocks) = Cardinality(SelectedFiles)
            /\ \A i \in SelectedFiles : Cardinality(BlocksFor(blocks, i)) = 1
            /\ \A i \in SelectedDirs : BlocksFor(blocks, i) = {}

\* a selection of a directory and of two files, formatted
C1_Witness ==
    /\ FullReturned
    /\ Cardinality(SelectedFiles) = 2
    /\ \E i \in SelectedDirs : SelRel(i) # <<>>
    /\ Len(BlocksOf(call.contents)) = 2

(***************************************************************************)
(* C2: for any item list and root, generate_file_contents returns normally *)
(* a text whose first line is <file_contents> and whose last line is       *)
(* </file_contents>, with nothing before or after the two marker lines and *)
(* one File: block per non-directory item between them.                    *)
(***************************************************************************)
C2_FileContentsReturns ==
    call.op = "generate_file_contents" =>
        /\ call.status = "returned"
        /\ call.result = Join(call.contents, NL)
        /\ ContentsWellFormed(call.contents)
        /\ Len(BlocksOf(call.contents)) = Cardinality(SelectedFiles)

(***************************************************************************)
(* C3, as stated: for any selection in which some files cannot be read,    *)
(* generate_full_output completes and emits exactly one block for every    *)
(* selected file; the block of a file that cannot be read holds a single   *)
(* "// Error: ..." line, the block of a file that can be read its content. *)
(***************************************************************************)
NoNewline(s) == \A i \in 1..Len(s) : s[i] # 10

C4_RenderedPaths ==
    MapReturned =>
        LET entries == EntriesOf(call.lines)
            real == {e \in 1..Len(entries) : entries[e].entry}
            paths == {entries[e].path : e \in real}
        IN  /\ paths = SelectedPrefixes
            /\ Cardinality(real) = Cardinality(paths)
            /\ SelectedPrefixes # {} => Cardinality(real) = Len(entries)

\* only sub/M.RS is selected, and sub/ is rendered above it
C4_Witness ==
    /\ MapReturned
    /\ root_path = P_proj
    /\ file_paths = <<P_sub_M_RS>>
    /\ LET entries == EntriesOf(call.lines)
       IN  /\ Len(entries) = 2
           /\ entries[1].path = <<N_sub>> /\ entries[1].dir
           /\ entries[2].path = <<N_sub, N_M_RS>>

(***************************************************************************)
(* C5: in the rendered file_map the siblings of every level are in         *)
(* ascending name order, files and directories intermixed, and an entry    *)
(* whose rel_path has k components is printed at depth k, after its        *)
(* parent's line and before the line of its parent's next sibling.         *)
(***************************************************************************)
C5_SiblingOrder ==
    MapReturned =>
        LET entries == EntriesOf(call.lines)
            real == {e \in 1..Len(entries) : entries[e].entry}
        IN  /\ \A x, y \in real :
                  (x < y /\ Parent(entries[x].path) = Parent(entries[y].path))
                      => StrLess(entries[x].name, entries[y].name)
            /\ \A r \in SelectedPrefixes :
                  \E e \in real :
                      /\ entries[e].path = r
                      /\ entries[e].depth = Len(r)
                      /\ Len(r) > 1 =>
                            \E p \in real :
                                /\ p < e
                                /\ entries[p].path = Parent(r)
                                /\ \A m \in (p + 1)..e : entries[m].depth > entries[p].depth

\* a.h, sub/ and sub/M.RS under proj/: a.h before sub/, M.RS at depth 2
C5_Witness ==
    /\ MapReturned
    /\ root_path = P_proj
    /\ Range(file_paths) = {P_a_h, P_sub, P_sub_M_RS}
    /\ call.lines = << MapOpen, <<112, 114, 111, 106, 47>> (* "proj/" *), <<9500, 9472, 9472, 32, 97, 46, 104>> (* "\u251c\u2500\u2500 a.h" *), <<9492, 9472, 9472, 32, 115, 117, 98, 47>> (* "\u2514\u2500\u2500 sub/" *),
                       <<32, 32, 32, 32, 9492, 9472, 9472, 32, 77, 46, 82, 83>> (* "    \u2514\u2500\u2500 M.RS" *), MapClose >>

(***************************************************************************)
(* C6: in every file_map of a non-empty tree each line below the root line *)
(* carries exactly one connector; the last-sibling connector is used       *)
(* exactly for the last sibling of its level; the children of a directory  *)
(* are indented by one more 4-character unit than the directory; and the   *)
(* unit of each ancestor is the bar unit when the ancestor was not the     *)
(* last sibling of its level and four spaces when it was.                  *)
(***************************************************************************)
IsConnectorChar(c) == c = BoxMid[1] \/ c = BoxLast[1]

DocumentedLanguages == <<
    <<<<46, 112, 121>>, <<112, 121, 116, 104, 111, 110>>>>,             \* .py -> python
    <<<<46, 106, 115>>, <<106, 97, 118, 97, 115, 99, 114, 105, 112, 116>>>>,         \* .js -> javascript
    <<<<46, 116, 115>>, <<116, 121, 112, 101, 115, 99, 114, 105, 112, 116>>>>,         \* .ts -> typescript
    <<<<46, 116, 115, 120>>, <<116, 115, 120>>>>,               \* .tsx -> tsx
    <<<<46, 106, 115, 120>>, <<106, 115, 120>>>>,               \* .jsx -> jsx
    <<<<46, 99>>, <<99>>>>,                   \* .c -> c
    <<<<46, 104>>, <<99>>>>,                   \* .h -> c
    <<<<46, 99, 112, 112>>, <<99, 112, 112>>>>,               \* .cpp -> cpp
    <<<<46, 104, 112, 112>>, <<99, 112, 112>>>>,               \* .hpp -> cpp
    <<<<46, 99, 99>>, <<99, 112, 112>>>>,                \* .cc -> cpp
    <<<<46, 106, 97, 118, 97>>, <<106, 97, 118, 97>>>>,             \* .java -> java
    <<<<46, 114, 115>>, <<114, 117, 115, 116>>>>,               \* .rs -> rust
    <<<<46, 103, 111>>, <<103, 111>>>>,                 \* .go -> go
    <<<<46, 114, 98>>, <<114, 117, 98, 121>>>>,               \* .rb -> ruby
    <<<<46, 112, 104, 112>>, <<112, 104, 112>>>>,               \* .php -> php
    <<<<46, 99, 115>>, <<99, 115, 104, 97, 114, 112>>>>,             \* .cs -> csharp
    <<<<46, 104, 116, 109, 108>>, <<104, 116, 109, 108>>>>,             \* .html -> html
    <<<<46, 99, 115, 115>>, <<99, 115, 115>>>>,               \* .css -> css
    <<<<46, 106, 115, 111, 110>>, <<106, 115, 111, 110>>>>,             \* .json -> json
    <<<<46, 121, 97, 109, 108>>, <<121, 97, 109, 108>>>>,             \* .yaml -> yaml
    <<<<46, 121, 109, 108>>, <<121, 97, 109, 108>>>>,              \* .yml -> yaml
    <<<<46, 109, 100>>, <<109, 97, 114, 107, 100, 111, 119, 110>>>>,           \* .md -> markdown
    <<<<46, 115, 113, 108>>, <<115, 113, 108>>>>,               \* .sql -> sql
    <<<<46, 115, 104>>, <<98, 97, 115, 104>>>>,               \* .sh -> bash
    <<<<46, 116, 120, 116>>, <<116, 101, 120, 116>>>>               \* .txt -> text
>>

C8_DocumentedTags ==
    FullReturned =>
        LET blocks == BlocksOf(call.contents)
        IN  \A i \in SelectedFiles :
                \A b \in BlocksFor(blocks, i) :
                    LET name == file_paths[i][Len(file_paths[i])]
                    IN  blocks[b].tag =
                            DictGet(DocumentedLanguages, Lower(Suffix(name)), <<116, 101, 120, 116>> (* "text" *))

(***************************************************************************)
(* Claims about scan_directory.                                            *)
(***************************************************************************)
\* the relative paths a finished scan returned, the root aside
ReturnedPaths == {scan_items[i].rel_path : i \in 2..Len(scan_items)}

AllReturnedPaths == {scan_items[i].rel_path : i \in 1..Len(scan_items)}

OnDisk == {p \in Slots : disk[p] # "absent"}

StrictAncestors(p) == {SubSeq(p, 1, n) : n \in 1..(Len(p) - 1)}

\* p is hidden itself or lies below a hidden directory
HiddenOrBelowHidden(p) == is_hidden(p) \/ \E a \in StrictAncestors(p) : is_hidden(a)

\* the entries the claim counts: not hidden, not symbolic links
CountedByClaim == {p \in OnDisk : ~is_hidden(p) /\ disk[p] \notin LinkKinds}

\* every directory can be listed and every entry inspected
NothingRefused ==
    /\ root_kind = "dir"
    /\ \A p \in Slots : disk[p] \notin {"dir_nolist", "dir_nosearch", "link_denied"}

\* the entries a scan without hidden entries comes to: not hidden, and below
\* directories that are not hidden and can be listed and searched
Visible ==
    {p \in OnDisk :
        /\ ~is_hidden(p)
        /\ root_kind = "dir"
        /\ \A a \in StrictAncestors(p) : ~is_hidden(a) /\ disk[a] = "dir"}

\* the paths of the scan with hidden entries contain those of the scan without
SupersetWithHidden ==
    (scan_pc = "done" /\ scan_prev.scanned) =>
        IF include_hidden
        THEN scan_prev.paths \subseteq AllReturnedPaths
        ELSE AllReturnedPaths \subseteq scan_prev.paths

\* C9 as stated: a scan without hidden entries returns the root and exactly
\* the N entries that are neither hidden nor symbolic links, and the scan with
\* hidden entries returns a superset.  Stated here for disks on which nothing
\* is refused only, which is weaker than the statement and still fails: a
\* symbolic link is listed, and an entry below a hidden directory is not.
C9_CountAsStated ==
    /\ (scan_pc = "done" /\ ~include_hidden /\ NothingRefused) =>
            Len(scan_items) = Cardinality(CountedByClaim) + 1
    /\ SupersetWithHidden

\* C9: a scan with include_hidden=false returns the root first and then each
\* entry once; the entries returned that are not hidden are exactly those that
\* are not hidden and lie below directories that are not hidden and can be
\* listed and searched, symbolic links included; where nothing is refused
\* these are all that is returned, so the result has one entry more than
\* there are such entries; and the paths returned with include_hidden=true on
\* the same disk are a superset of those returned with include_hidden=false.
C9_ScanCount ==
    /\ (scan_pc = "done" /\ ~include_hidden) =>
            /\ scan_items[1] = RootItem
            /\ Len(scan_items) = Cardinality(ReturnedPaths) + 1
            /\ {p \in ReturnedPaths : ~is_hidden(p)} = Visible
            /\ NothingRefused =>
                    /\ ReturnedPaths = Visible
                    /\ Len(scan_items) = Cardinality(Visible) + 1
    /\ SupersetWithHidden

\* both scans of a disk are over; the disk holds a listed symbolic link and a
\* file below a hidden directory, and nothing was refused
C9_Witness ==
    /\ scan_pc = "done"
    /\ scan_prev.scanned
    /\ ~include_hidden
    /\ NothingRefused
    /\ disk[<<N_l>>] = "link_dir"
    /\ <<N_l>> \in ReturnedPaths
    /\ disk[<<N_dot_h, N_k>>] = "file"
    /\ <<N_dot_h, N_k>> \in scan_prev.paths
    /\ <<N_d, N_f>> \in ReturnedPaths

\* C10: with include_hidden=false no entry of a scan result other than the
\* root is hidden and none lies below a hidden directory, whatever errors
\* occurred while the children were inspected.
C10_HiddenSkipped ==
    (scan_pc = "done" /\ ~include_hidden) =>
        \A i \in 2..Len(scan_items) :
            /\ scan_items[i].is_hidden = FALSE
            /\ ~HiddenOrBelowHidden(scan_items[i].rel_path)

\* the symbolic links the loop of a call comes to and does not skip as hidden
MetSymlinks ==
    {p \in OnDisk :
        /\ disk[p] \in LinkKinds
        /\ root_kind = "dir"
        /\ \A a \in StrictAncestors(p) : disk[a] = "dir" /\ Listed(is_hidden(a))
        /\ Listed(is_hidden(p))}

EntriesAt(p) == {i \in 1..Len(scan_items) : scan_items[i].rel_path = p}

\* is_dir is False; it is None in the entries that carry an error and only there
IsDirFalse(item) == item.error = "none" /\ item.is_dir = FALSE

\* no call of _scan_directory_recursive is made on a symbolic link, and no
\* entry returned lies strictly below an entry that is a symbolic link
NeverBelowSymlink ==
    /\ \A n \in 1..Len(scan_stack) :
          scan_stack[n].current_path = <<>> \/ disk[scan_stack[n].current_path] \notin LinkKinds
    /\ \A i, j \in 1..Len(scan_items) :
          scan_items[i].is_symlink => ~IsStrictPrefix(scan_items[i].rel_path, scan_items[j].rel_path)

Reached(p) ==
    /\ p \in OnDisk
    /\ root_kind = "dir"
    /\ \A a \in StrictAncestors(p) :
          disk[a] \in {"dir", "dir_nosearch"} /\ Listed(is_hidden(a))

\* inspecting p is refused: its target may not be inspected, or the directory
\* it lies in may not be searched
RefusedChild(p) ==
    \/ disk[p] = "link_denied"
    \/ Len(p) > 1 /\ disk[Parent(p)] = "dir_nosearch"

\* C12: a permission error met during a scan never aborts it: the scan of a
\* root that is a directory returns normally; a directory that cannot be
\* listed has its own entry, and every entry of the directories that can be
\* listed is returned; a child whose inspection fails appears exactly once,
\* with error="access_denied" and is_dir null, and its siblings are scanned.
C12_PermissionErrors ==
    /\ scan_pc = "raised" => root_kind \notin {"dir", "dir_nolist"}
    /\ scan_pc = "done" =>
          \A p \in OnDisk :
              Reached(p) =>
                  IF RefusedChild(p)
                  THEN /\ Cardinality(EntriesAt(p)) = 1
                       /\ \A i \in EntriesAt(p) :
                             scan_items[i].error = "access_denied" /\ scan_items[i].is_dir = "None"
                  ELSE Listed(is_hidden(p)) => p \in ReturnedPaths

\* C13 as stated: scan_directory raises a not-found error when the root does
\* not exist and an invalid-argument error when it is not a directory, before
\* any entry is produced, and raises under no other condition.
C13_RootErrorsAsStated ==
    scan_pc \in {"scanning", "done", "raised"} =>
        /\ root_kind = "missing" => scan_pc = "raised" /\ scan_error = "FileNotFoundError"
        /\ root_kind = "file" => scan_pc = "raised" /\ scan_error = "ValueError"
        /\ scan_pc = "raised" => scan_items = <<>> /\ root_kind \in {"missing", "file"}

\* C13: scan_directory raises a not-found error when the root does not exist,
\* an invalid-argument error when it exists but is not a directory, and a
\* permission error when the root itself may not be inspected, each before any
\* entry is produced; it raises under no other condition.
C13_RootErrors ==
    scan_pc \in {"scanning", "done", "raised"} =>
        /\ root_kind = "missing" => scan_pc = "raised" /\ scan_error = "FileNotFoundError"
        /\ root_kind = "file" => scan_pc = "raised" /\ scan_error = "ValueError"
        /\ root_kind = "noaccess" => scan_pc = "raised" /\ scan_error = "PermissionError"
        /\ scan_pc = "raised" => scan_items = <<>> /\ root_kind \in {"missing", "file", "noaccess"}

\* the scan of a root that is a file has raised
C13_Witness ==
    /\ scan_pc = "raised"
    /\ root_kind = "file"
    /\ scan_error = "ValueError"

(***************************************************************************)
(* Claims about sort_items.                                                *)
(***************************************************************************)
\* C14: for every sort_by and for both values of reverse, in the list
\* sort_items returns every entry with is_dir true comes before every entry
\* that is not a directory.
C14_DirsFirst ==
    sort_call.called =>
        \A i, j \in 1..Len(sort_call.result) :
            (~NotIsDir(sort_call.result[i]) /\ NotIsDir(sort_call.result[j])) => i < j

\* the last component of an entry's path
BaseName(item) == item.path[Len(item.path)]

AllScanned(items) == \A i \in 1..Len(items) : items[i] \in ScannedEntries

\* C15: sort_items(entries, "name") applied to entries as scan_directory
\* makes them returns, within the directories and within the files, the
\* entries in ascending case-insensitive order of their base names; an
\* unknown sort_by gives the same result as "name".
C15_ScannedByName ==
    (sort_call.called /\ ~sort_call.reverse /\ AllScanned(sort_call.items)) =>
        /\ sort_call.sort_by = "name" =>
              \A i, j \in 1..Len(sort_call.result) :
                  (i < j /\ NotIsDir(sort_call.result[i]) = NotIsDir(sort_call.result[j])) =>
                      ~StrLess(Lower(BaseName(sort_call.result[j])),
                               Lower(BaseName(sort_call.result[i])))
        /\ sort_call.sort_by = "other" =>
              sort_call.result = sort_items(sort_call.items, "name", sort_call.reverse)

(***************************************************************************)
(* Claims about GitignoreFilter.should_ignore.                             *)
(***************************************************************************)
\* the components of a path with its ".." resolved; a ".." at the top stays
RECURSIVE Resolved(_)
Resolved(parts) ==
    IF parts = <<>> THEN <<>>
    ELSE LET before == Resolved(SubSeq(parts, 1, Len(parts) - 1))
             last == parts[Len(parts)]
         IN  IF last = DOTDOT /\ before # <<>> /\ before[Len(before)] # DOTDOT
             THEN SubSeq(before, 1, Len(before) - 1)
             ELSE Append(before, last)

\* the place a path names: a relative path is taken from the filter's root
PlaceOf(absolute, parts, root_dir) ==
    IF absolute THEN Resolved(parts) ELSE Resolved(root_dir \o parts)

\* the path lies outside the filter's root directory
OutsideRoot(absolute, parts, root_dir) == ~IsPrefix(root_dir, PlaceOf(absolute, parts, root_dir))

\* C16: for a filter with a loaded pattern set and any path outside the
\* filter's root directory, given in absolute or in relative form,
\* should_ignore returns false whatever the patterns are.
C16_OutsideNeverIgnored ==
    (/\ filter_call.called
     /\ filter_call.loaded
     /\ OutsideRoot(filter_call.absolute, filter_call.parts, filter_call.root_dir))
        => filter_call.result = FALSE

(***************************************************************************)
(* Claims about is_binary_file and read_text_file.                         *)
(***************************************************************************)
\* the file that was read, and its bytes
ReadFile == fs[read_call.path]

\* the call read a file that the caller may open and that is not binary
ReadPlainFile ==
    /\ read_call.called
    /\ ReadFile.kind = "file"
    /\ ~read_call.binary

\* C17: for every file for which is_binary_file returns true (a known binary
\* extension, or a NUL byte in the first 1024 bytes of a file that is not
\* empty), read_text_file returns an error record and never a string of the
\* file's content.
C17_BinaryNeverRead ==
    (read_call.called /\ read_call.binary)
        => (~read_call.result.ok /\ read_call.result.error = "binary_file")

\* a file without binary extension whose bytes hold a NUL byte and would
\* decode as UTF-8 has been read
C17_Witness ==
    /\ read_call.called
    /\ read_call.binary
    /\ read_call.path = P_a_h
    /\ ReadFile.kind = "file"
    /\ Utf8Decode(ReadFile.bytes).ok
    /\ ~read_call.result.ok

\* C18: for every file whose bytes are valid UTF-8 text and which is not
\* classified binary, read_text_file returns a string equal to the UTF-8
\* decoding of those bytes with every character preserved, line endings
\* included: a CR LF in the file is a CR LF in the result.
C18_Utf8Unchanged ==
    (ReadPlainFile /\ Utf8Decode(ReadFile.bytes).ok)
        => (/\ read_call.result.ok
            /\ read_call.result.text = Utf8Decode(ReadFile.bytes).text)

\* index of the first encoding of ENCODINGS[from..] with which the bytes
\* decode; 0 if there is none
RECURSIVE FirstSuccess(_, _)
FirstSuccess(bytes, from) ==
    IF from > Len(ENCODINGS) THEN 0
    ELSE IF Decodes(ENCODINGS[from], bytes) THEN from
    ELSE FirstSuccess(bytes, from + 1)

\* C19: for an existing file that is not binary, read_text_file tries the
\* encodings in their fixed order and returns what the first encoding that
\* succeeds reads; it returns an encoding_detection_failed record, with the
\* list of encodings and at most 3 decode errors, exactly when every encoding
\* of the list fails.
C19_FirstSuccessReturned ==
    ReadPlainFile =>
        LET k == FirstSuccess(ReadFile.bytes, 1)
        IN  IF k # 0
            THEN /\ read_call.result.ok
                 /\ read_call.result.text = ReadText(read_call.path, ENCODINGS[k])
            ELSE /\ ~read_call.result.ok
                 /\ read_call.result.error = "encoding_detection_failed"
                 /\ read_call.result.attempted_encodings = ENCODINGS
                 /\ Len(read_call.result.decode_errors) <= 3

(***************************************************************************)
(* Claims about Tokenizer.count_tokens.                                    *)
(***************************************************************************)
\* C20: count_tokens never raises: it returns 0 for a null input, 0 for the
\* empty string and 0 when the encoder fails, and otherwise the number of
\* tokens the encoder produces for the text.
C20_CountTokens ==
    token_call.called =>
        /\ ~token_call.outcome.raised
        /\ token_call.outcome.value =
              IF token_call.text.none \/ token_call.text.chars = <<>> THEN 0
              ELSE IF token_call.encoded.raises THEN 0
              ELSE Len(token_call.encoded.tokens)

\* count_tokens was called on a text that is not empty and the encoder failed
C20_Witness ==
    /\ token_call.called
    /\ ~token_call.text.none
    /\ token_call.text.chars # <<>>
    /\ token_call.encoded.called
    /\ token_call.encoded.raises
    /\ token_call.outcome = Returned(0)

C22_GivenUnchanged ==
    [][/\ sort_call'.items = sort_call.items
       /\ file_paths' = file_paths
       /\ MakeItems(file_paths', root_path') = MakeItems(file_paths, root_path)
       /\ filter_call'.root_dir = filter_call.root_dir
       /\ filter_call'.loaded = filter_call.loaded
       /\ filter_call'.spec = filter_call.spec]_vars

\* sort_items has returned another order than that of the list given, and
\* the list given is still there
C22_Witness ==
    /\ sort_call.called
    /\ Len(sort_call.items) = MaxGiven
    /\ sort_call.result # sort_call.items

(***************************************************************************)
(* Claims about the directories of the file map.                           *)
(***************************************************************************)
\* the entries rendered for the list of items given to generate_file_map
RenderedEntries == EntriesOf(map_call.lines)

\* the rendered entry e has entries beneath it
HasRenderedChildren(e) ==
    \E f \in 1..Len(RenderedEntries) :
        IsStrictPrefix(RenderedEntries[e].path, RenderedEntries[f].path)

\* C23: when the selection holds a path P marked as a file and also an item
\* strictly below P, generate_file_map renders P as a directory `P/` with
\* that item beneath it; a selected directory with no selected descendant is
\* rendered as `name/` with no lines beneath it; in general an entry is
\* rendered with a trailing `/` exactly when it was selected with is_dir true
\* or has rendered children.
C23_DirectoryMarks ==
    map_call.called =>
        LET items == map_call.items
            entries == RenderedEntries
        IN  /\ \A i, j \in 1..Len(items) :
                  (~items[i].is_dir /\ IsStrictPrefix(items[i].rel_path, items[j].rel_path))
                      => \E e, f \in 1..Len(entries) :
                            /\ entries[e].path = items[i].rel_path
                            /\ entries[e].dir
                            /\ e < f
                            /\ entries[f].path = items[j].rel_path
            /\ \A i \in 1..Len(items) :
                  (/\ items[i].is_dir
                   /\ ~\E j \in 1..Len(items) :
                          IsStrictPrefix(items[i].rel_path, items[j].rel_path))
                      => \E e \in 1..Len(entries) :
                            /\ entries[e].path = items[i].rel_path
                            /\ entries[e].dir
                            /\ ~HasRenderedChildren(e)
            /\ \A e \in 1..Len(entries) :
                  entries[e].dir <=>
                      \/ \E i \in 1..Len(items) :
                            items[i].rel_path = entries[e].path /\ items[i].is_dir
                      \/ HasRenderedChildren(e)

(***************************************************************************)
(* Claims about FileTreeController.load_folder.                            *)
(***************************************************************************)
\* the name is one of a virtual environment
VenvName(part) ==
    \/ part = <<118, 101, 110, 118>> (* "venv" *)
    \/ part = <<118, 105, 114, 116, 117, 97, 108, 101, 110, 118>> (* "virtualenv" *)
    \/ part = <<101, 110, 118>> (* "env" *)
    \/ part = <<46, 118, 101, 110, 118>> (* ".venv" *)
    \/ StartsWith(part, <<118, 101, 110, 118, 45>> (* "venv-" *))

\* C24: after load_folder completes, the loaded item list contains the root
\* entry, whatever the .gitignore patterns are, and contains no other entry
\* for which the loaded ignore filter's should_ignore is true and no entry
\* whose rel_path has a component equal to venv, virtualenv, env or .venv or
\* starting with venv-.
C24_LoadedItems ==
    load_call.called =>
        LET items == load_call.items
        IN  /\ \E i \in 1..Len(items) : items[i].path = P_proj /\ items[i].rel_path = <<>>
            /\ \A i \in 1..Len(items) :
                  items[i].path # P_proj =>
                      ~(/\ load_call.gitignore_filter.loaded
                        /\ should_ignore(load_call.gitignore_filter, TRUE, items[i].path))
            /\ \A i \in 1..Len(items) :
                  \A k \in 1..Len(items[i].rel_path) : ~VenvName(items[i].rel_path[k])

\* a folder with venv/x, venv-3, a/env and a/x was loaded with the pattern
\* `*` ignoring everything and the pattern `!a` taking a back, and a/ is what
\* is left next to the root
C24_Witness ==
    /\ load_call.called
    /\ load_call.folder[<<N_venv, N_x>>] = "file"
    /\ load_call.folder[<<N_venv_3>>] = "file"
    /\ load_call.folder[<<N_a, N_env>>] = "file"
    /\ load_call.folder[<<N_a, N_x>>] = "file"
    /\ load_call.gitignore_filter.loaded
    /\ load_call.gitignore_filter.spec =
          <<[include |-> TRUE, star |-> TRUE, name |-> <<>>],
            [include |-> FALSE, star |-> FALSE, name |-> N_a]>>
    /\ Len(load_call.items) = 3
    /\ {load_call.items[i].rel_path : i \in 1..3} = {<<>>, <<N_a>>, <<N_a, N_x>>}

\* the files a worker has taken from its list: those done and the one in work
FilesStarted(worker) ==
    worker.i + (IF worker.pc \in {"progress", "calculate"} THEN 1 ELSE 0)

\* the files the worker had taken when stop() was requested
FilesStartedAtStop(worker) ==
    worker.stop_at + (IF worker.stop_busy THEN 1 ELSE 0)

\* C25: once stop() has been requested a token worker takes no further file
\* from its list (it finishes at most the file it was working on), and the
\* workers started come to the end of their runs, stopped or not.
C25_WorkerStops ==
    /\ [](\A w \in 1..Len(threads.workers) :
             threads.workers[w].stopped =>
                 FilesStarted(threads.workers[w]) <= FilesStartedAtStop(threads.workers[w]))
    /\ (threads.workers # <<>>) ~>
           (\A w \in 1..Len(threads.workers) : threads.workers[w].pc = "done")

\* a worker stopped in the work on its first file of two has emitted that
\* file's count and ended its run with the second file left
C25_Witness ==
    \E w \in 1..Len(threads.workers) :
        LET worker == threads.workers[w]
        IN  /\ worker.stopped
            /\ worker.stop_busy
            /\ worker.stop_at = 0
            /\ worker.pc = "done"
            /\ worker.i = 1
            /\ Len(worker.files) = 2

\* the selection holds a text file that can be read, and its text files are
\* all under the root
ReadableSelection(selected, root) ==
    /\ \E i \in 1..Len(selected) :
          IsFile(selected[i]) /\ ~is_binary_file(selected[i]) /\ read_text_file(selected[i]).ok
    /\ \A i \in 1..Len(selected) :
          IsFile(selected[i]) /\ ~is_binary_file(selected[i]) => IsRelativeTo(selected[i], root)

\* C26: perform_copy_to_clipboard returns True and emits a success status
\* whenever the selection holds a readable text file under the root and the
\* clipboard write succeeds, whatever copy_file_tree_only is; it returns False
\* only when no text file is selected, none could be read, or the write fails.
C26_CopySucceeds ==
    copy_call.called =>
        /\ ReadableSelection(copy_call.selected, root_path) /\ copy_call.clipboard_ok =>
              /\ copy_call.result
              /\ copy_call.emitted # <<>>
              /\ copy_call.emitted[Len(copy_call.emitted)]
        /\ ~copy_call.result =>
              \/ ~ReadableSelection(copy_call.selected, root_path)
              \/ ~copy_call.clipboard_ok

\* the lines of the map, counted from the top, that show the file of a block
MapLinesOf(block) ==
    {e \in 1..Len(EntriesOf(call.lines)) :
        /\ EntriesOf(call.lines)[e].entry
        /\ RelPathStr(EntriesOf(call.lines)[e].path) = block.file}

\* C27: in the text of generate_full_output the blocks of file_contents come
\* in the order in which the lines of their files come in file_map, from the
\* top down.
C27_BlocksInMapOrder ==
    FullReturned =>
        \A b1, b2 \in 1..Len(BlocksOf(call.contents)) :
            b1 < b2 =>
                \A e1 \in MapLinesOf(BlocksOf(call.contents)[b1]),
                   e2 \in MapLinesOf(BlocksOf(call.contents)[b2]) : e1 <= e2

\* the entry of the directory that holds the entry at position i comes before it
ParentListedBefore(i) ==
    \E j \in 1..(i - 1) : scan_items[j].rel_path = Parent(scan_items[i].rel_path)

\* C28: a scan that does not follow links comes to its end, and the list it
\* returns names no path twice and has every entry but the root's after the
\* entry of its parent directory.
C28_ScanEndsInOrder ==
    /\ (~follow_symlinks /\ scan_pc = "scanning") ~> (scan_pc = "done")
    /\ [](~follow_symlinks /\ scan_pc = "done" =>
             /\ \A i, j \in 1..Len(scan_items) :
                   scan_items[i].path = scan_items[j].path => i = j
             /\ \A i \in 2..Len(scan_items) : ParentListedBefore(i))

\* a scan has returned the entries of a directory two levels down
C28_Witness ==
    /\ ~follow_symlinks
    /\ scan_pc = "done"
    /\ \E i \in 1..Len(scan_items) : Len(scan_items[i].rel_path) = 2
    /\ \E i \in 1..Len(scan_items) : scan_items[i].error = "access_denied"

\* the items with children
DirectoryItems == {d \in TreeItems : ChildItems(d) # {}}

\* C30: after any check and uncheck events every directory item is Checked
\* exactly when all its children are Checked, Unchecked exactly when none of
\* the items below it is Checked, and PartiallyChecked otherwise; and
\* checked_items holds exactly the paths of the Checked items.
C30_TreeConsistent ==
    tree_items # NoTree =>
        /\ \A d \in DirectoryItems :
              /\ tree_items.state[d] = "Checked" <=>
                     \A c \in ChildItems(d) : tree_items.state[c] = "Checked"
              /\ tree_items.state[d] = "Unchecked" <=>
                     \A c \in DescendantItems(d) : tree_items.state[c] # "Checked"
        /\ tree_items.checked_items = {c \in TreeItems : tree_items.state[c] = "Checked"}

\* _load_folder has stopped a worker of an earlier load, waited for it and
\* cleared token_cache, and the main thread is back in its event loop
LoadedAfterStop ==
    /\ threads.main = "loop"
    /\ \E w \in 1..Len(threads.workers) :
          threads.workers[w].stopped /\ threads.workers[w].load < threads.loads

\* C29: once _load_folder has stopped and waited for the previous worker and
\* cleared token_cache, the cache holds only counts that come from the worker
\* started for the current load, however the worker's signals and the main
\* thread's handlers interleave.
C29_CacheOfCurrentLoad ==
    LoadedAfterStop =>
        \A path \in DOMAIN threads.token_cache :
            threads.workers[threads.token_cache[path].worker].load = threads.loads

====
